---- MODULE Spec2Model ----
(***************************************************************************)
(* The trade engine of the signal executor (src/trade_engine.py) as a      *)
(* state machine: one trade record of the ledger, the venue's side of its  *)
(* symbol (entry order, position, stop-loss, trailing stop, TP orders) and *)
(* the private execution stream between them.                              *)
(*                                                                         *)
(* Trades on different symbols share no engine state, so the model follows *)
(* one trade.  Prices and quantities are exact integers (the code computes *)
(* in binary floats; rounding to tick and lot is modelled exactly).        *)
(* Time is abstracted to the two thresholds the code compares against.     *)
(*                                                                         *)
(* The repository also holds a standalone executor (src/main.py) with its  *)
(* own state document, gates and daily counter; its ingest path is the     *)
(* second state machine of this module (SpecMain).                         *)
(***************************************************************************)
EXTENDS Integers, Sequences, FiniteSets, TLC

VARIABLES
    dry_run,    \* config.DRY_RUN
    MOVE_SL_TO_BE_ON_TP1,   \* config.MOVE_SL_TO_BE_ON_TP1
    rules,      \* the symbol's instrument rules: tick_size, qty_step, min_qty
    tr,         \* the trade record state["open_trades"][trade_id]
    venue,      \* the venue's state for the symbol
    events,     \* execution events in flight on the private stream (FIFO)
    h,          \* history: what the engine has asked of the venue so far
    ex          \* the standalone executor of src/main.py and what it placed

vars == <<dry_run, MOVE_SL_TO_BE_ON_TP1, rules, tr, venue, events, h, ex>>

-----------------------------------------------------------------------------
(* Bounds of the model *)

\* execution events that can wait on the stream at once
MaxQueue == 2
\* invocations of place_post_entry_orders in the direct-call harness
MaxCalls == 2

-----------------------------------------------------------------------------
(* Configuration (src/config.py defaults; percentages in basis points where *)
(* the default is fractional)                                               *)

LEVERAGE == 5
RISK_PCT == 5
INITIAL_SL_PCT == 19
ENTRY_TOO_FAR_BP == 50
ENTRY_EXPIRATION_PRICE_BP == 60
TRAIL_AFTER_TP_INDEX == 3
TRAIL_DISTANCE_PCT == 2
TRAIL_ACTIVATE_ON_TP == TRUE
TP_SPLITS == <<30, 30, 30>>
FALLBACK_TP_BP == <<85, 165, 400>>

\* _move_sl(..., max_retries=3)
max_retries == 3

-----------------------------------------------------------------------------
(* Values *)

NoPrice == -1                 \* the key entry_price is absent from the record
NoOrder == 0                  \* an order id that is absent / None
EntryOid == 100               \* the venue's id of the entry order
TradeId == "T1"               \* f"{symbol}|{side}|{int(time.time())}"
TpIdx == 1..3

\* Signals as signal_parser.parse_signal returns them (dca_prices is always
\* [] for this format): side, trigger, tp_prices, and sl_price (None, here
\* NoPrice, when the message has no SL line).
Signals ==
    { [side |-> "buy",  trigger |-> 100, tp_prices |-> <<101, 102, 130>>,
       sl_price |-> 90],
      [side |-> "sell", trigger |-> 100, tp_prices |-> <<>>,
       sl_price |-> NoPrice] }

\* What the venue can answer for the instrument.
RuleSets ==
    { [tick_size |-> 1, qty_step |-> 1, min_qty |-> 1],
      [tick_size |-> 2, qty_step |-> 2, min_qty |-> 2] }

\* Wallet equity the venue can report.
Equities == {4000}
\* Last prices the venue can report when the entry is armed.
LastPrices == {99, 100, 101}
\* Average fill prices of the entry.
FillPrices == {100, 101}
\* The price an execution event carries (execPrice or price or lastPrice):
\* a number, the string "0", a non-numeric string, or nothing.
PriceKinds == {"num", "zero", "nan", "absent"}
\* Realised PnL the venue can report at close.
PnlValues == {-5, 0, 5}
NoPnl == -999

Min(a, b) == IF a < b THEN a ELSE b

-----------------------------------------------------------------------------
(* Precision helpers *)

\* math.floor(x / step) * step for x = num/den >= 0
floor_to_step(num, den, step) ==
    IF step <= 0 THEN num \div den
    ELSE (num \div (den * step)) * step

\* Python's round(): nearest integer, ties to even; for num/den >= 0
PyRound(num, den) ==
    LET q == num \div den
        r == num % den
    IN  IF 2 * r < den THEN q
        ELSE IF 2 * r > den THEN q + 1
        ELSE IF q % 2 = 0 THEN q ELSE q + 1

\* _round_price(price, tick_size) for price = num/den
round_price(num, den, tick_size) ==
    IF tick_size <= 0 THEN num \div den
    ELSE PyRound(num, den * tick_size) * tick_size

\* _round_qty(qty, qty_step, min_qty) for qty = num/den
round_qty(num, den, qty_step, min_qty) ==
    LET q == floor_to_step(num, den, qty_step)
    IN  IF q < min_qty THEN min_qty ELSE q

\* calc_base_qty: margin = equity*RISK_PCT/100; notional = margin*LEVERAGE
calc_base_qty(equity, entry_price) ==
    round_qty(equity * RISK_PCT * LEVERAGE, 100 * entry_price,
              rules.qty_step, rules.min_qty)

-----------------------------------------------------------------------------
(* Entry gatekeepers *)

OrderSide(sig) == IF sig.side = "sell" THEN "Sell" ELSE "Buy"

\* Mutation of too_far: the threshold itself is not yet too far.
too_far_Strict(side, last, trigger) ==
    IF side = "Sell"
    THEN last * 10000 < trigger * (10000 - ENTRY_TOO_FAR_BP)
    ELSE last * 10000 > trigger * (10000 + ENTRY_TOO_FAR_BP)

too_far(side, last, trigger) ==
    IF side = "Sell"
    THEN last * 10000 <= trigger * (10000 - ENTRY_TOO_FAR_BP)
    ELSE last * 10000 >= trigger * (10000 + ENTRY_TOO_FAR_BP)

beyond_expiry_price(side, last, trigger) ==
    IF ENTRY_EXPIRATION_PRICE_BP <= 0 THEN FALSE
    ELSE IF side = "Sell"
         THEN last * 10000 <= trigger * (10000 - ENTRY_EXPIRATION_PRICE_BP)
         ELSE last * 10000 >= trigger * (10000 + ENTRY_EXPIRATION_PRICE_BP)

-----------------------------------------------------------------------------
(* Initial state *)

NoTp == [st |-> "none", qty |-> 0, oid |-> NoOrder]

NoTrade ==
    [ status |-> "none", order_side |-> "Buy", trigger |-> 0,
      tp_prices |-> <<>>, sl_price |-> NoPrice,
      entry_order_id |-> NoOrder, base_qty |-> 0,
      placed_age |-> 0, entry_price |-> NoPrice, filled_ts |-> FALSE,
      closed_ts |-> FALSE, closed_old |-> FALSE,
      post_orders_placed |-> FALSE,
      tp_order_ids |-> [i \in TpIdx |-> NoOrder], tp1_order_id |-> NoOrder,
      sl_moved_to_be |-> FALSE, trailing_started |-> FALSE,
      tp_fills_list |-> {}, dca_fills_list |-> {},
      realized_pnl |-> NoPnl, exit_reason |-> "" ]

NoVenue ==
    [ entry |-> "none",       \* the entry order: none, live, filled, cancelled
      link |-> "",            \* its orderLinkId
      reduce_only |-> FALSE,  \* its reduceOnly flag
      qty |-> 0,              \* its quantity
      entries |-> 0,          \* entry orders created for the trade id
      pos |-> 0,              \* position size
      avg |-> 0,              \* position average price
      seen |-> FALSE,         \* the position query already shows the fill
      sl |-> 0,               \* stop-loss registered for the position (0: none)
      trail |-> 0,            \* trailing-stop distance registered (0: none)
      active |-> 0,           \* trailing activation price
      tp |-> [i \in TpIdx |-> NoTp],     \* the latest order per TP index
      tps |-> [i \in TpIdx |-> 0] ]      \* orders created per TP index

\* a direct call of place_conditional_entry: the signal, the last price the
\* venue reported, how place_order went, and the order id returned
NoCall ==
    [ sig |-> [side |-> "", trigger |-> 0, tp_prices |-> <<>>,
               sl_price |-> NoPrice],
      last |-> NoPrice, res |-> "", oid |-> NoOrder ]

\* DCA orders are numbered by DCA_QTY_MULTS (two entries by default)
DcaIdx == 1..2

\* TP and DCA execution events followed one by one in SpecFills
MaxDeliveries == 5

\* The fill bookkeeping of a trade record as on_execution keeps it: the
\* lists tp_fills_list and dca_fills_list with their counts tp_fills and
\* dca_fills; and, for the record, the indices whose events were delivered
\* and the number of events delivered.
NoFills ==
    [ tp_fills_list |-> <<>>, tp_fills |-> 0,
      dca_fills_list |-> <<>>, dca_fills |-> 0,
      tp_seen |-> {}, dca_seen |-> {}, delivered |-> 0 ]

\* trades followed side by side in SpecArchive
MaxTrades == 3
ArchIds == 1..MaxTrades

\* _archive_trade keeps the last 500 entries of trade_history
HISTORY_MAX == 500

\* The ledger with several trades and its history, for the archiving of
\* cleanup_closed_trades: of each trade the fields the prune loop reads;
\* trade_history as the number of entries that were there at the start
\* (old) followed by the ids archived since, in order (hist).
NoLedgerTrade ==
    [status |-> "none", placed_age |-> 0, closed_ts |-> FALSE, closed_old |-> FALSE]
NoLedger ==
    [ trades |-> [i \in ArchIds |-> NoLedgerTrade], old |-> 0, hist |-> <<>> ]

NoHistory ==
    [ opens |-> 0,            \* pending -> open transitions of the trade
      placed |-> 0,           \* completed post-entry placements
      calls |-> 0,            \* direct invocations (harness)
      sl_calls |-> 0,         \* stop-loss installs asked by post-entry placement
      tp_calls |-> [i \in TpIdx |-> 0],  \* place_order calls per TP index
      size |-> 0,             \* position size read by the last placement
      detect |-> {},          \* paths that saw the fill while pending
      stale |-> FALSE,        \* an entry event reached a trade no longer pending
      floor |-> FALSE,        \* trailing was activated with sl_moved_to_be set
      gate |-> NoCall,        \* the latest direct call of place_conditional_entry
      sync |-> "",            \* what the latest startup_sync logged
      msg |-> {},             \* status words the source message shows now
      fills |-> NoFills,      \* the fill lists, event by event (SpecFills)
      arch |-> NoLedger ]     \* several trades and trade_history (SpecArchive)

\* The standalone executor (src/main.py): its channel, clock, loop position,
\* state document in memory and on disk, and the entry orders it created.
MaxMsgs == 2                  \* messages posted to the channel
MaxDay == 2                   \* calendar days followed

\* main.py configuration, set by environment: the caps are small here so
\* that both are reached; the expiry band is the default 0.6 %.
MAX_OPEN_TRADES == 2
MAX_TRADES_PER_DAY == 2
ENTRY_EXPIRY_PRICE_BP == 60

Bases == {"AAA", "BBB"}
NoSignal == [base |-> "", side |-> "", entry |-> 0, tps |-> <<>>]
\* What main.parse_signal makes of a message: a signal, or None.
Posts ==
    { [base |-> "AAA", side |-> "long",  entry |-> 100, tps |-> <<101>>],
      [base |-> "BBB", side |-> "short", entry |-> 100, tps |-> <<99>>],
      NoSignal }

\* signal_hash: md5 over symbol|side|trigger|tp_prices (collisions of md5
\* are set aside: equal hashes stand for equal fields)
signal_hash(sig) == <<sig.base, sig.side, sig.entry, sig.tps>>
Hashes == {signal_hash(p) : p \in Posts \ {NoSignal}}

NoInfo == [entry_order_id |-> NoOrder]
\* The entry orders the executor created on the venue: how many per signal
\* hash and day, and how many per symbol are armed (created, not cancelled).
NoOrders ==
    [ made  |-> [x \in Hashes |-> [d \in 1..MaxDay |-> 0]],
      armed |-> [b \in Bases |-> 0] ]
\* how: the branch handle_signal left through; last: the price it had read
NoGate == [how |-> "", last |-> NoPrice]
NoState ==
    [ last_id |-> 0, trades_today |-> 0, day |-> 0,
      open_orders |-> [b \in Bases |-> NoInfo] ]

\* ---- the state document as Python values and as JSON text ----

\* A Python value: None, bool, int, float (n is its value, always whole
\* here), str, list (items, keys empty) or dict (items with str keys).
PyVal(ty, n, s, items) == [ty |-> ty, n |-> n, s |-> s, items |-> items]
PyNone == PyVal("none", 0, "", <<>>)
PyBool(b) == PyVal("bool", IF b THEN 1 ELSE 0, "", <<>>)
PyInt(n) == PyVal("int", n, "", <<>>)
PyFloat(n) == PyVal("float", n, "", <<>>)
PyStr(s) == PyVal("str", 0, s, <<>>)
PyList(vs) == PyVal("list", 0, "", [i \in 1..Len(vs) |-> [k |-> "", v |-> vs[i]]])
PyDict(kvs) ==
    PyVal("dict", 0, "", [i \in 1..Len(kvs) |-> [k |-> kvs[i][1], v |-> kvs[i][2]]])

\* the record handle_signal stores under open_orders[symbol]
OrderInfo(tp1, be_done, ids) ==
    PyDict(<< <<"symbol", PyStr("AAAUSDT")>>, <<"side", PyStr("long")>>,
              <<"entry", PyFloat(100)>>, <<"entry_order_id", PyStr("e1")>>,
              <<"tp1_order_id", tp1>>, <<"be_done", PyBool(be_done)>>,
              <<"expires_at", PyInt(1700)>>, <<"all_order_ids", PyList(ids)>> >>)

StateDoc(last_id, trades_today, day, open_orders) ==
    PyDict(<< <<"last_id", last_id>>, <<"trades_today", PyInt(trades_today)>>,
              <<"day", day>>, <<"open_orders", PyDict(open_orders)>> >>)

\* what load_state returns when there is no readable file
DefaultState == StateDoc(PyNone, 0, PyNone, <<>>)

\* States the executor holds: fresh, an entry placed with its TP1,
\* break-even done.
Docs ==
    { DefaultState,
      StateDoc(PyStr("7"), 1, PyStr("d1"),
               << <<"AAAUSDT", OrderInfo(PyStr("t1"), FALSE,
                                         <<PyStr("e1"), PyStr("t1")>>)>> >>),
      StateDoc(PyStr("8"), 1, PyStr("d1"),
               << <<"AAAUSDT", OrderInfo(PyStr("t1"), TRUE,
                                         <<PyStr("e1"), PyStr("t1")>>)>> >>) }

\* JSON text, as its sequence of tokens
Tok(t, n, s) == [t |-> t, n |-> n, s |-> s]
P(t) == Tok(t, 0, "")

\* Mutation of json_dumps: None is written as the text "None" (str(None))
\* instead of null.
RECURSIVE json_dumps_NoneAsText(_)
json_dumps_NoneAsText(v) ==
    LET RECURSIVE items(_, _)
        items(its, keyed) ==
            IF its = <<>> THEN <<>>
            ELSE (IF keyed THEN <<Tok("str", 0, Head(its).k), P(":")>> ELSE <<>>)
                 \o json_dumps_NoneAsText(Head(its).v)
                 \o (IF Tail(its) # <<>> THEN <<P(",")>> ELSE <<>>)
                 \o items(Tail(its), keyed)
    IN  CASE v.ty = "none"  -> <<Tok("str", 0, "None")>>
          [] v.ty = "bool"  -> <<P(IF v.n = 1 THEN "true" ELSE "false")>>
          [] v.ty = "int"   -> <<Tok("int", v.n, "")>>
          [] v.ty = "float" -> <<Tok("float", v.n, "")>>
          [] v.ty = "str"   -> <<Tok("str", 0, v.s)>>
          [] v.ty = "list"  -> <<P("[")>> \o items(v.items, FALSE) \o <<P("]")>>
          [] OTHER          -> <<P("{")>> \o items(v.items, TRUE) \o <<P("}")>>

\* json.dumps(st, ensure_ascii=False, indent=2), white space left out
RECURSIVE json_dumps(_)
json_dumps(v) ==
    LET RECURSIVE items(_, _)
        items(its, keyed) ==
            IF its = <<>> THEN <<>>
            ELSE (IF keyed THEN <<Tok("str", 0, Head(its).k), P(":")>> ELSE <<>>)
                 \o json_dumps(Head(its).v)
                 \o (IF Tail(its) # <<>> THEN <<P(",")>> ELSE <<>>)
                 \o items(Tail(its), keyed)
    IN  CASE v.ty = "none"  -> <<P("null")>>
          [] v.ty = "bool"  -> <<P(IF v.n = 1 THEN "true" ELSE "false")>>
          [] v.ty = "int"   -> <<Tok("int", v.n, "")>>
          [] v.ty = "float" -> <<Tok("float", v.n, "")>>
          [] v.ty = "str"   -> <<Tok("str", 0, v.s)>>
          [] v.ty = "list"  -> <<P("[")>> \o items(v.items, FALSE) \o <<P("]")>>
          [] OTHER          -> <<P("{")>> \o items(v.items, TRUE) \o <<P("}")>>

\* the parser behind json.loads: the value at the head of the tokens and
\* the tokens after it; ok is false where the decoder raises
Parsed(v, rest) == [ok |-> TRUE, v |-> v, rest |-> rest]
ParseError == [ok |-> FALSE, v |-> PyNone, rest |-> <<>>]

RECURSIVE parse_value(_)
parse_value(ts) ==
    LET RECURSIVE parse_items(_, _, _)
        \* inside a list or dict, after "[", "{" or ","
        parse_items(rest, keyed, acc) ==
            LET hasKey == Len(rest) >= 2 /\ rest[1].t = "str" /\ rest[2].t = ":"
                body   == IF keyed THEN Tail(Tail(rest)) ELSE rest
                r      == parse_value(body)
                acc1   == Append(acc, [k |-> IF keyed THEN rest[1].s ELSE "",
                                       v |-> r.v])
                close  == IF keyed THEN "}" ELSE "]"
            IN  IF keyed /\ ~hasKey THEN ParseError
                ELSE IF ~r.ok \/ r.rest = <<>> THEN ParseError
                ELSE IF Head(r.rest).t = "," THEN parse_items(Tail(r.rest), keyed, acc1)
                ELSE IF Head(r.rest).t = close
                THEN Parsed(PyVal(IF keyed THEN "dict" ELSE "list", 0, "", acc1),
                            Tail(r.rest))
                ELSE ParseError
        open(keyed) ==
            IF Len(ts) >= 2 /\ ts[2].t = (IF keyed THEN "}" ELSE "]")
            THEN Parsed(PyVal(IF keyed THEN "dict" ELSE "list", 0, "", <<>>),
                        Tail(Tail(ts)))
            ELSE parse_items(Tail(ts), keyed, <<>>)
    IN  IF ts = <<>> THEN ParseError
        ELSE LET t == Head(ts) IN
             CASE t.t = "null"  -> Parsed(PyNone, Tail(ts))
               [] t.t = "true"  -> Parsed(PyBool(TRUE), Tail(ts))
               [] t.t = "false" -> Parsed(PyBool(FALSE), Tail(ts))
               [] t.t = "int"   -> Parsed(PyInt(t.n), Tail(ts))
               [] t.t = "float" -> Parsed(PyFloat(t.n), Tail(ts))
               [] t.t = "str"   -> Parsed(PyStr(t.s), Tail(ts))
               [] t.t = "["     -> open(FALSE)
               [] t.t = "{"     -> open(TRUE)
               [] OTHER         -> ParseError

\* json.loads: one value and nothing after it
json_loads(ts) ==
    LET r == parse_value(ts)
    IN  IF r.ok /\ r.rest = <<>> THEN r ELSE ParseError

\* The file system under the executor: the names state.json and state.tmp
\* (the inode each names, 0: no such file), the content of each inode, and
\* the inode each thread holds open.
Threads == {"poll", "ws"}
Inodes == 1..3
NoFiles ==
    [ json |-> 0, tmp |-> 0,
      data |-> [i \in Inodes |-> <<>>],
      fd |-> [th \in Threads |-> 0] ]

\* mem: the dict `state`; text: what each thread's save_state is writing;
\* pc: where it is in save_state; prev: the snapshot of the last completed
\* save_state
NoStore ==
    [ mem |-> DefaultState,
      fs |-> NoFiles,
      pc |-> [th \in Threads |-> "idle"],
      text |-> [th \in Threads |-> <<>>],
      prev |-> DefaultState ]

\* One call of DiscordReader._request_with_retry: where it is, the attempt
\* of its loop, the HTTP requests sent, what each one met, the time left to
\* sleep and the time slept since the last request (in quarter seconds).
NoRead ==
    [ pc |-> "idle", attempt |-> 0, calls |-> 0, log |-> <<>>,
      wait |-> 0, slept |-> 0 ]

NoExecutor ==
    [ channel |-> <<>>,       \* parsed messages of the channel, by message id
      today |-> 1,            \* date.today()
      pc |-> "idle",          \* main_loop: between iterations, or in a batch
      batch_end |-> 0,        \* id of the last message fetched for the batch
      last_id |-> 0,          \* main_loop's local cursor
      state |-> NoState,      \* the state document in memory
      disk |-> NoState,       \* state.json
      orders |-> NoOrders,    \* entry orders created on the venue
      due |-> {},             \* symbols whose record is past its expires_at
      gate |-> NoGate,        \* the latest return of handle_signal in the
                              \* batch under way
      store |-> NoStore,      \* the state document and its files, step by
                              \* step (followed in SpecStore only)
      read |-> NoRead ]       \* a chat read under way (SpecRead)

Init ==
    /\ dry_run = FALSE
    /\ MOVE_SL_TO_BE_ON_TP1 = TRUE
    /\ rules \in RuleSets
    /\ tr = NoTrade
    /\ venue = NoVenue
    /\ events = <<>>
    /\ h = NoHistory
    /\ ex = NoExecutor

-----------------------------------------------------------------------------
(* Arming the entry: test_signal.main steps 4, around                       *)
(* TradeEngine.place_conditional_entry                                      *)

\* the venue after place_order(body) created the entry order
CreateEntry(v, qty) ==
    [v EXCEPT !.entry = "live", !.link = TradeId, !.reduce_only = FALSE,
              !.qty = qty, !.entries = @ + 1]

\* What place_conditional_entry leaves behind: the order id it returns, the
\* venue, and lev, whether set_leverage was sent (the first thing it does,
\* outside DRY_RUN only).
EntryResult(oid, v) == [oid |-> oid, v |-> v, lev |-> ~dry_run]

\* Mutation of place_conditional_entry: a failed place_order still yields an
\* order id (the failure is not told apart from success).
place_conditional_entry_IgnoreFailure(v, sig, last, qty, res) ==
    IF too_far(OrderSide(sig), last, sig.trigger) THEN EntryResult(NoOrder, v)
    ELSE IF beyond_expiry_price(OrderSide(sig), last, sig.trigger)
    THEN EntryResult(NoOrder, v)
    ELSE IF dry_run THEN EntryResult(-EntryOid, v)
    ELSE IF res = "ok" THEN EntryResult(EntryOid, CreateEntry(v, qty))
    ELSE EntryResult(EntryOid, v)

\* What place_conditional_entry returns (oid: an order id, or None) and the
\* venue it leaves.  `res` is how place_order went: "ok", or "fail" (the call
\* raised, or the answer held no orderId).
place_conditional_entry(v, sig, last, qty, res) ==
    IF too_far(OrderSide(sig), last, sig.trigger) THEN EntryResult(NoOrder, v)
    ELSE IF beyond_expiry_price(OrderSide(sig), last, sig.trigger)
    THEN EntryResult(NoOrder, v)
    ELSE IF dry_run THEN EntryResult(-EntryOid, v)
    ELSE IF res = "ok" THEN EntryResult(EntryOid, CreateEntry(v, qty))
    ELSE EntryResult(NoOrder, v)

\* Mutation of NewTrade: the record is created with entry_price preset to
\* the trigger.
NewTrade_WithEntryPrice(sig, oid, qty) ==
    [ NoTrade EXCEPT
        !.status = "pending",
        !.order_side = OrderSide(sig),
        !.trigger = sig.trigger,
        !.tp_prices = sig.tp_prices,
        !.sl_price = sig.sl_price,
        !.entry_order_id = oid,
        !.base_qty = qty,
        !.entry_price = sig.trigger ]

\* the record test_signal.main stores for an armed entry
NewTrade(sig, oid, qty) ==
    [ NoTrade EXCEPT
        !.status = "pending",
        !.order_side = OrderSide(sig),
        !.trigger = sig.trigger,
        !.tp_prices = sig.tp_prices,
        !.sl_price = sig.sl_price,
        !.entry_order_id = oid,
        !.base_qty = qty ]

\* res = "lost": the order was created and the second calc_base_qty (for the
\* record) raised, so no record was stored.
PlaceEntry ==
    \E sig \in Signals, last \in LastPrices, equity \in Equities,
       res \in {"ok", "fail", "lost"} :
        LET qty == calc_base_qty(equity, sig.trigger)
            r   == place_conditional_entry(venue, sig, last, qty,
                                           IF res = "fail" THEN "fail" ELSE "ok")
        IN  /\ tr.status = "none"
            /\ venue.entries = 0
            /\ venue' = r.v
            /\ tr' = IF r.oid # NoOrder /\ res # "lost"
                      THEN NewTrade(sig, r.oid, qty)
                      ELSE tr
            /\ UNCHANGED <<ex, dry_run, MOVE_SL_TO_BE_ON_TP1, rules, events, h>>

-----------------------------------------------------------------------------
(* Position helpers *)

\* position_size_avg: what the position query shows
position_size(v) == IF v.seen THEN v.pos ELSE 0
position_avg(v) == IF v.seen /\ v.pos > 0 THEN v.avg ELSE 0

-----------------------------------------------------------------------------
(* Post-entry orders: TradeEngine.place_post_entry_orders                  *)

\* How the venue calls of one placement go: pre = "raise" when the rules,
\* position or last-price query raises; sl_ok whether set_trading_stop
\* succeeds; tp_ok the TP indices whose place_order succeeds.
TpOutcomes == {TpIdx, TpIdx \ {1}, {1}, {}}
PostOutcomes ==
    {[pre |-> "raise", sl_ok |-> FALSE, tp_ok |-> {}]}
        \cup [pre : {"ok"}, sl_ok : BOOLEAN, tp_ok : TpOutcomes]

sl_price_of(entry, side) ==
    round_price(entry * (IF side = "Sell" THEN 100 + INITIAL_SL_PCT
                                          ELSE 100 - INITIAL_SL_PCT),
                100, rules.tick_size)

generate_fallback_tps(entry, side) ==
    [i \in 1..Len(FALLBACK_TP_BP) |->
        round_price(entry * (IF side = "Sell" THEN 10000 - FALLBACK_TP_BP[i]
                                              ELSE 10000 + FALLBACK_TP_BP[i]),
                    10000, rules.tick_size)]

\* the TP prices the ladder uses: the signal's, else the fallback distances
ladder_prices(t) ==
    IF t.tp_prices # <<>> THEN t.tp_prices
    ELSE generate_fallback_tps(t.entry_price, t.order_side)

\* the indices (1-based) the TP loop builds an order for
tp_to_place(t) ==
    {i \in 1..Min(Len(ladder_prices(t)), Len(TP_SPLITS)) : TP_SPLITS[i] > 0}

tp_qty(size, i) ==
    round_qty(size * TP_SPLITS[i], 100, rules.qty_step, rules.min_qty)

\* the id the venue gives the n-th order created for TP index i
TpOid(i, n) == 10 * n + i

Result(t, v, hh, raised) == [t |-> t, v |-> v, h |-> hh, raised |-> raised]

\* a handler's result with the number of break-even set_trading_stop calls
\* it sent
Sent(r, n) ==
    [t |-> r.t, v |-> r.v, h |-> r.h, raised |-> r.raised, sent |-> n]

\* Mutation of place_post_entry_orders: a failing stop-loss install ends the
\* placement (the exception is not caught: no TP result is processed and the
\* flag is not set).
place_post_entry_orders_SlFailureAborts(t, v, hh, o) ==
    IF t.entry_price = NoPrice \/ o.pre = "raise"
    THEN Result(t, v, hh, TRUE)
    ELSE IF position_size(v) <= 0
    THEN Result(t, v, hh, FALSE)
    ELSE IF ~dry_run /\ ~o.sl_ok
    THEN Result(t, v, [hh EXCEPT !.sl_calls = @ + 1], TRUE)
    ELSE
      LET size == position_size(v)
          idxs == tp_to_place(t)
          ok   == IF dry_run THEN {} ELSE idxs \cap o.tp_ok
          oid(i) == TpOid(i, hh.tp_calls[i] + 1)
          ids  == [i \in TpIdx |->
                     IF dry_run /\ i \in idxs THEN -i
                     ELSE IF i \in ok THEN oid(i)
                     ELSE t.tp_order_ids[i]]
      IN  Result(
            [t EXCEPT !.tp_order_ids = ids,
                      !.tp1_order_id = IF 1 \in idxs /\ (dry_run \/ 1 \in ok)
                                       THEN ids[1] ELSE @,
                      !.post_orders_placed = TRUE],
            IF dry_run THEN v
            ELSE [v EXCEPT
                    !.sl = sl_price_of(t.entry_price, t.order_side),
                    !.tp = [i \in TpIdx |->
                              IF i \in ok
                              THEN [st |-> "live", qty |-> tp_qty(size, i),
                                    oid |-> oid(i)]
                              ELSE @[i]],
                    !.tps = [i \in TpIdx |-> IF i \in ok THEN @[i] + 1 ELSE @[i]]],
            [hh EXCEPT
                    !.placed = @ + 1,
                    !.size = size,
                    !.sl_calls = IF dry_run THEN @ ELSE @ + 1,
                    !.tp_calls = [i \in TpIdx |->
                                    IF ~dry_run /\ i \in idxs THEN @[i] + 1
                                    ELSE @[i]]],
            FALSE)

\* The DCA ladder is empty: the parser returns dca_prices = [] for every
\* signal, so dca_to_place = 0.
place_post_entry_orders(t, v, hh, o) ==
    IF t.entry_price = NoPrice \/ o.pre = "raise"
    THEN Result(t, v, hh, TRUE)
    ELSE IF position_size(v) <= 0
    THEN Result(t, v, hh, FALSE)
    ELSE
      LET size == position_size(v)
          idxs == tp_to_place(t)
          ok   == IF dry_run THEN {} ELSE idxs \cap o.tp_ok
          oid(i) == TpOid(i, hh.tp_calls[i] + 1)
          ids  == [i \in TpIdx |->
                     IF dry_run /\ i \in idxs THEN -i
                     ELSE IF i \in ok THEN oid(i)
                     ELSE t.tp_order_ids[i]]
      IN  Result(
            [t EXCEPT !.tp_order_ids = ids,
                      !.tp1_order_id = IF 1 \in idxs /\ (dry_run \/ 1 \in ok)
                                       THEN ids[1] ELSE @,
                      !.post_orders_placed = TRUE],
            IF dry_run THEN v
            ELSE [v EXCEPT
                    !.sl = IF o.sl_ok
                           THEN sl_price_of(t.entry_price, t.order_side)
                           ELSE @,
                    !.tp = [i \in TpIdx |->
                              IF i \in ok
                              THEN [st |-> "live", qty |-> tp_qty(size, i),
                                    oid |-> oid(i)]
                              ELSE @[i]],
                    !.tps = [i \in TpIdx |-> IF i \in ok THEN @[i] + 1 ELSE @[i]]],
            [hh EXCEPT
                    !.placed = @ + 1,
                    !.size = size,
                    !.sl_calls = IF dry_run THEN @ ELSE @ + 1,
                    !.tp_calls = [i \in TpIdx |->
                                    IF ~dry_run /\ i \in idxs THEN @[i] + 1
                                    ELSE @[i]]],
            FALSE)

-----------------------------------------------------------------------------
(* Stop-loss moves: TradeEngine._move_sl and _start_trailing                *)

\* How one _move_sl goes: the rules query raises ("raise"), the n-th
\* set_trading_stop attempt succeeds (n in 1..max_retries), or all fail (0).
MoveOutcomes == {[rules |-> "raise", at |-> 0]}
                    \cup [rules : {"ok"}, at : 0..max_retries]
NoMove == [rules |-> "ok", at |-> 0]

\* the break-even price the callers pass: entry_price or trigger
be_price(t) ==
    IF t.entry_price # NoPrice /\ t.entry_price # 0 THEN t.entry_price
    ELSE t.trigger

\* Mutation of _move_sl: the DRY_RUN return is missing.
move_sl_NoDryRun(v, sl_price, m) ==
    IF m.rules = "raise" THEN [v |-> v, ok |-> FALSE, raised |-> TRUE, sent |-> 0]
    ELSE IF m.at \in 1..max_retries
    THEN [v |-> [v EXCEPT !.sl = round_price(sl_price, 1, rules.tick_size)],
          ok |-> TRUE, raised |-> FALSE, sent |-> m.at]
    ELSE [v |-> v, ok |-> FALSE, raised |-> FALSE, sent |-> max_retries]

\* returns the venue after the attempts, the function's result and the
\* number of set_trading_stop calls it sent
move_sl(v, sl_price, m) ==
    IF m.rules = "raise" THEN [v |-> v, ok |-> FALSE, raised |-> TRUE, sent |-> 0]
    ELSE IF dry_run THEN [v |-> v, ok |-> TRUE, raised |-> FALSE, sent |-> 0]
    ELSE IF m.at \in 1..max_retries
    THEN [v |-> [v EXCEPT !.sl = round_price(sl_price, 1, rules.tick_size)],
          ok |-> TRUE, raised |-> FALSE, sent |-> m.at]
    ELSE [v |-> v, ok |-> FALSE, raised |-> FALSE, sent |-> max_retries]

\* the price trailing is anchored at: tp_prices[tp_num-1], else last price
trail_anchor(t, tp_num, last) ==
    round_price(IF Len(t.tp_prices) < tp_num THEN last ELSE t.tp_prices[tp_num],
                1, rules.tick_size)

trail_dist(anchor) ==
    round_price(anchor * TRAIL_DISTANCE_PCT, 100, rules.tick_size)

\* Mutation of _start_trailing: the body never carries stopLoss.
start_trailing_NoStopLoss(t, v, tp_num, last, tok) ==
    IF ~tok THEN [v |-> v, raised |-> TRUE]
    ELSE IF dry_run THEN [v |-> v, raised |-> FALSE]
    ELSE LET anchor == trail_anchor(t, tp_num, last)
         IN  [v |-> [v EXCEPT !.active = anchor, !.trail = trail_dist(anchor)],
              raised |-> FALSE]

\* tok: the venue calls of _start_trailing succeed; otherwise it raises
start_trailing(t, v, tp_num, last, tok) ==
    IF ~tok THEN [v |-> v, raised |-> TRUE]
    ELSE IF dry_run THEN [v |-> v, raised |-> FALSE]
    ELSE LET anchor == trail_anchor(t, tp_num, last)
         IN  [v |-> [v EXCEPT
                       !.active = anchor,
                       !.trail = trail_dist(anchor),
                       !.sl = IF t.sl_moved_to_be /\ t.entry_price # NoPrice
                                 /\ t.entry_price # 0
                              THEN round_price(t.entry_price, 1, rules.tick_size)
                              ELSE @],
              raised |-> FALSE]

-----------------------------------------------------------------------------
(* Execution events: TradeEngine.on_execution                               *)

InLedger(t) == t.status \notin {"none", "archived"}

\* An event of the stream is a record [tag, n, kind, px]: the tag of its
\* orderLinkId ("ENTRY" for the bare trade id, "TP"/"DCA" with the number
\* n), and the price it carries (kind in PriceKinds, px when it is a number).

\* float(execPrice or price or lastPrice or trigger); NoPrice when float()
\* raises, and the record keeps no entry_price
exec_price(t, ev) ==
    CASE ev.kind = "num"    -> ev.px
      [] ev.kind = "zero"   -> 0
      [] ev.kind = "absent" -> t.trigger
      [] OTHER              -> NoPrice

\* Mutation of on_entry_fill: the status of the trade is not looked at.
on_entry_fill_NoStatusCheck(t, v, hh, ev, o) ==
    LET p  == exec_price(t, ev)
        t1 == [t EXCEPT !.entry_price = IF p = NoPrice THEN @ ELSE p,
                        !.status = "open",
                        !.filled_ts = TRUE]
        h1 == [hh EXCEPT !.opens = @ + 1, !.detect = @ \cup {"push"}]
        r  == place_post_entry_orders(t1, v, h1, o)
    IN  Result(r.t, r.v, r.h, FALSE)

\* the entry branch: a pending trade becomes open and the post-entry orders
\* are placed at once (an exception of the placement is caught and logged)
on_entry_fill(t, v, hh, ev, o) ==
    IF t.status # "pending"
    THEN Result(t, v, [hh EXCEPT !.stale = TRUE], FALSE)
    ELSE LET p  == exec_price(t, ev)
             t1 == [t EXCEPT !.entry_price = IF p = NoPrice THEN @ ELSE p,
                             !.status = "open",
                             !.filled_ts = TRUE]
             h1 == [hh EXCEPT !.opens = @ + 1, !.detect = @ \cup {"push"}]
             r  == place_post_entry_orders(t1, v, h1, o)
         IN  Result(r.t, r.v, r.h, FALSE)

on_dca_fill(t, v, hh, ev) ==
    Result([t EXCEPT !.dca_fills_list = @ \cup {ev.n}], v, hh, FALSE)

\* Mutation of on_tp_fill: the break-even move does not look at
\* sl_moved_to_be.
on_tp_fill_NoFlagCheck(t, v, hh, ev, m, last, tok) ==
    IF ev.n = 0 THEN Sent(Result(t, v, hh, FALSE), 0)
    ELSE
      LET t1 == [t EXCEPT !.tp_fills_list = @ \cup {ev.n}]
          be == MOVE_SL_TO_BE_ON_TP1 /\ ev.n = 1
          mv == move_sl(v, be_price(t1), m)
          sent == IF be THEN mv.sent ELSE 0
      IN  IF be /\ mv.raised THEN Sent(Result(t1, v, hh, TRUE), sent)
          ELSE
            LET t2 == IF be THEN [t1 EXCEPT !.sl_moved_to_be = TRUE] ELSE t1
                v2 == IF be THEN mv.v ELSE v
                trl == TRAIL_ACTIVATE_ON_TP /\ ev.n = TRAIL_AFTER_TP_INDEX
                          /\ ~t.trailing_started
                st == start_trailing(t2, v2, ev.n, last, tok)
            IN  IF trl /\ st.raised THEN Sent(Result(t2, v2, hh, TRUE), sent)
                ELSE IF trl
                THEN Sent(Result([t2 EXCEPT !.trailing_started = TRUE], st.v,
                                 [hh EXCEPT !.floor = t2.sl_moved_to_be
                                                        /\ t2.entry_price > 0],
                                 FALSE), sent)
                ELSE Sent(Result(t2, v2, hh, FALSE), sent)

\* the TP branch; it does not look at the trade's status
on_tp_fill(t, v, hh, ev, m, last, tok) ==
    IF ev.n = 0 THEN Sent(Result(t, v, hh, FALSE), 0)
    ELSE
      LET t1 == [t EXCEPT !.tp_fills_list = @ \cup {ev.n}]
          be == MOVE_SL_TO_BE_ON_TP1 /\ ev.n = 1 /\ ~t.sl_moved_to_be
          mv == move_sl(v, be_price(t1), m)
          sent == IF be THEN mv.sent ELSE 0
      IN  IF be /\ mv.raised THEN Sent(Result(t1, v, hh, TRUE), sent)
          ELSE
            LET t2 == IF be THEN [t1 EXCEPT !.sl_moved_to_be = TRUE] ELSE t1
                v2 == IF be THEN mv.v ELSE v
                trl == TRAIL_ACTIVATE_ON_TP /\ ev.n = TRAIL_AFTER_TP_INDEX
                          /\ ~t.trailing_started
                st == start_trailing(t2, v2, ev.n, last, tok)
            IN  IF trl /\ st.raised THEN Sent(Result(t2, v2, hh, TRUE), sent)
                ELSE IF trl
                THEN Sent(Result([t2 EXCEPT !.trailing_started = TRUE], st.v,
                                 [hh EXCEPT !.floor = t2.sl_moved_to_be
                                                        /\ t2.entry_price > 0],
                                 FALSE), sent)
                ELSE Sent(Result(t2, v2, hh, FALSE), sent)

on_execution(t, v, hh, ev, o, m, last, tok) ==
    IF ev.tag = "ENTRY"
    THEN IF InLedger(t) THEN on_entry_fill(t, v, hh, ev, o)
                        ELSE Result(t, v, hh, FALSE)
    ELSE IF ~InLedger(t) THEN Result(t, v, hh, FALSE)
    ELSE IF ev.tag = "DCA" THEN on_dca_fill(t, v, hh, ev)
    ELSE on_tp_fill(t, v, hh, ev, m, last, tok)

\* the venue calls an event leads to, and so the outcomes that matter
CallsPost(t, ev) == ev.tag = "ENTRY" /\ t.status = "pending"
CallsMove(t, ev) ==
    /\ ev.tag = "TP" /\ InLedger(t) /\ ev.n = 1
    /\ MOVE_SL_TO_BE_ON_TP1 /\ ~t.sl_moved_to_be
CallsTrail(t, ev) ==
    /\ ev.tag = "TP" /\ InLedger(t) /\ ev.n = TRAIL_AFTER_TP_INDEX
    /\ TRAIL_ACTIVATE_ON_TP /\ ~t.trailing_started

\* the stream hands the next event to the engine
OnExecution ==
    /\ events # <<>>
    /\ LET ev == Head(events) IN
        \E o \in IF CallsPost(tr, ev) THEN PostOutcomes
                  ELSE {CHOOSE x \in PostOutcomes : x.pre = "raise"},
           m \in IF CallsMove(tr, ev) THEN MoveOutcomes ELSE {NoMove},
           last \in IF CallsTrail(tr, ev) /\ Len(tr.tp_prices) < ev.n
                    THEN LastPrices ELSE {tr.trigger},
           tok \in IF CallsTrail(tr, ev) THEN BOOLEAN ELSE {TRUE} :
            LET r == on_execution(tr, venue, h, ev, o, m, last, tok)
            IN  /\ tr' = r.t
                /\ venue' = r.v
                /\ h' = r.h
    /\ events' = Tail(events)
    /\ UNCHANGED <<ex, dry_run, MOVE_SL_TO_BE_ON_TP1, rules>>

-----------------------------------------------------------------------------
(* The venue: fills, the position query catching up, the position closing   *)

Push(q, ev, push) ==
    IF push /\ Len(q) < MaxQueue THEN Append(q, ev) ELSE q

\* The entry order fills (fully, or one lot of it).  The position query may
\* show the position only later; the execution event may be lost (push).
VenueFillEntry ==
    \E sz \in {venue.qty, rules.qty_step}, px \in FillPrices,
       kind \in PriceKinds, seen \in BOOLEAN, push \in BOOLEAN :
        /\ venue.entry = "live"
        /\ sz > 0 /\ sz <= venue.qty
        /\ venue' = [venue EXCEPT !.entry = "filled", !.pos = sz,
                                  !.avg = px, !.seen = seen]
        /\ events' = Push(events,
                          [tag |-> "ENTRY", n |-> 0, kind |-> kind, px |-> px],
                          push)
        /\ UNCHANGED <<ex, dry_run, MOVE_SL_TO_BE_ON_TP1, rules, tr, h>>

VenuePositionVisible ==
    /\ venue.pos > 0 /\ ~venue.seen
    /\ venue' = [venue EXCEPT !.seen = TRUE]
    /\ UNCHANGED <<ex, dry_run, MOVE_SL_TO_BE_ON_TP1, rules, tr, events, h>>

ClosePosition(v) ==
    [v EXCEPT !.pos = 0, !.avg = 0, !.seen = FALSE, !.sl = 0,
              !.trail = 0, !.active = 0]

\* A TP order fills against the position.
VenueTpFill ==
    \E i \in TpIdx, push \in BOOLEAN :
        /\ venue.tp[i].st = "live" /\ venue.pos > 0
        /\ LET left == venue.pos - Min(venue.tp[i].qty, venue.pos)
               v1   == [venue EXCEPT !.tp[i].st = "filled", !.pos = left]
           IN  venue' = IF left = 0 THEN ClosePosition(v1) ELSE v1
        /\ events' = Push(events,
                          [tag |-> "TP", n |-> i, kind |-> "num",
                           px |-> venue.avg],
                          push)
        /\ UNCHANGED <<ex, dry_run, MOVE_SL_TO_BE_ON_TP1, rules, tr, h>>

\* The position closes: stop-loss, trailing stop, liquidation or by hand.
VenueClose ==
    /\ venue.pos > 0
    /\ venue' = ClosePosition(venue)
    /\ UNCHANGED <<ex, dry_run, MOVE_SL_TO_BE_ON_TP1, rules, tr, events, h>>

\* An event is lost on the stream (a disconnect).
StreamDrop ==
    /\ events # <<>>
    /\ events' = Tail(events)
    /\ UNCHANGED <<ex, dry_run, MOVE_SL_TO_BE_ON_TP1, rules, tr, venue, h>>

\* Time passes one of the two thresholds: placed_age 1 is "older than
\* ENTRY_EXPIRATION_MIN", 2 is "older than 24 h"; closed_old is "closed_ts
\* older than 24 h".
\* The age of placed_ts is read for pending and expired trades only, the
\* age of closed_ts for closed ones: time is advanced where it is read.
Advance ==
    /\ \/ /\ tr.status \in {"pending", "expired"}
          /\ tr.placed_age < 2
          /\ tr' = [tr EXCEPT !.placed_age = @ + 1]
       \/ /\ tr.status = "closed"
          /\ ~tr.closed_old
          /\ tr' = [tr EXCEPT !.closed_old = TRUE]
    /\ UNCHANGED <<ex, dry_run, MOVE_SL_TO_BE_ON_TP1, rules, venue, events, h>>

-----------------------------------------------------------------------------
(* Maintenance: the engine's periodic operations                            *)

\* the open-orders list of the symbol still holds the TP1 order
tp1_still_open(t, v) == v.tp[1].st = "live" /\ v.tp[1].oid = t.tp1_order_id

\* the trades check_tp_fills_fallback does not skip
Polled(t) ==
    /\ ~dry_run
    /\ t.status = "open"
    /\ t.post_orders_placed
    /\ ~t.sl_moved_to_be
    /\ t.tp1_order_id # NoOrder

\* Mutation of check_tp_fills_fallback: the flag is set whatever _move_sl
\* returned.
check_tp_fills_fallback_FlagAlways(t, v, q, m) ==
    IF ~Polled(t) \/ q = "raise" \/ tp1_still_open(t, v)
    THEN [t |-> t, v |-> v, sent |-> 0]
    ELSE LET mv == move_sl(v, be_price(t), m)
         IN  IF mv.raised THEN [t |-> t, v |-> v, sent |-> 0]
             ELSE [t |-> [t EXCEPT !.sl_moved_to_be = TRUE], v |-> mv.v,
                   sent |-> mv.sent]

\* check_tp_fills_fallback for the trade: q is how the open-orders query
\* goes, m how _move_sl goes; the record and the venue it leaves
check_tp_fills_fallback(t, v, q, m) ==
    IF ~Polled(t) \/ q = "raise" \/ tp1_still_open(t, v)
    THEN [t |-> t, v |-> v, sent |-> 0]
    ELSE LET mv == move_sl(v, be_price(t), m)
         IN  IF mv.raised THEN [t |-> t, v |-> v, sent |-> 0]
             ELSE [t |-> IF mv.ok THEN [t EXCEPT !.sl_moved_to_be = TRUE]
                                  ELSE t,
                   v |-> mv.v, sent |-> mv.sent]

CheckTpFillsFallback ==
    \E q \in {"ok", "raise"},
       m \in IF tp1_still_open(tr, venue) THEN {NoMove} ELSE MoveOutcomes :
        /\ Polled(tr)
        /\ LET r == check_tp_fills_fallback(tr, venue, q, m)
           IN  /\ tr' = r.t
               /\ venue' = r.v
        /\ UNCHANGED <<ex, dry_run, MOVE_SL_TO_BE_ON_TP1, rules, events, h>>

\* Mutation of cancel_entry: the body is logged and never sent.
cancel_entry_LogOnly(v, c) == v

\* cancel_entry on the venue: c is whether the cancel call succeeds
cancel_entry(v, c) ==
    IF dry_run THEN v
    ELSE IF c /\ v.entry = "live" THEN [v EXCEPT !.entry = "cancelled"]
    ELSE v

\* Mutation of cancel_expired_entries: the loop does not skip the trades that
\* are no longer pending.
CancelExpiredEntries_AnyStatus ==
    \E c \in BOOLEAN :
        /\ InLedger(tr)
        /\ tr.placed_age >= 1
        /\ venue' = IF tr.entry_order_id # NoOrder /\ tr.entry_order_id # -EntryOid
                    THEN cancel_entry(venue, c)
                    ELSE venue
        /\ tr' = [tr EXCEPT !.status = "expired"]
        /\ UNCHANGED <<ex, dry_run, MOVE_SL_TO_BE_ON_TP1, rules, events, h>>

\* cancel_expired_entries
CancelExpiredEntries ==
    \E c \in BOOLEAN :
        /\ tr.status = "pending"
        /\ tr.placed_age >= 1
        /\ venue' = IF tr.entry_order_id # NoOrder /\ tr.entry_order_id # -EntryOid
                    THEN cancel_entry(venue, c)
                    ELSE venue
        /\ tr' = [tr EXCEPT !.status = "expired"]
        /\ UNCHANGED <<ex, dry_run, MOVE_SL_TO_BE_ON_TP1, rules, events, h>>

\* _cancel_all_trade_orders: ok is the set of TP orders whose cancel goes
\* through (empty when the open-orders query raises)
cancel_all_trade_orders(v, ok) ==
    IF dry_run THEN v
    ELSE [v EXCEPT !.tp = [i \in TpIdx |->
                             IF @[i].st = "live" /\ i \in ok
                             THEN [@[i] EXCEPT !.st = "cancelled"]
                             ELSE @[i]]]

ThenSl(n) ==
    CASE n = 1 -> "tp1_then_sl" [] n = 2 -> "tp2_then_sl" [] OTHER -> "tp3_then_sl"

\* _determine_exit_reason
determine_exit_reason(t) ==
    LET tp_fills == Cardinality(t.tp_fills_list)
        tp_count == IF t.tp_prices # <<>> THEN Len(t.tp_prices)
                                          ELSE Len(FALLBACK_TP_BP)
        pnl      == t.realized_pnl
    IN  IF t.trailing_started /\ pnl # NoPnl /\ pnl > 0 THEN "trailing_stop"
        ELSE IF tp_fills >= tp_count THEN "all_tps_hit"
        ELSE IF tp_fills > 0 /\ t.sl_moved_to_be /\ pnl # NoPnl
                /\ pnl > -1 /\ pnl < 1 THEN "breakeven"
        ELSE IF tp_fills > 0 THEN ThenSl(tp_fills)
        ELSE IF pnl # NoPnl /\ pnl < 0 THEN "stop_loss"
        ELSE "unknown"

\* _fetch_and_store_trade_stats: pnl is the sum the venue's closed-PnL
\* records give, NoPnl when the query raises
fetch_and_store_trade_stats(t, pnl) ==
    IF dry_run THEN [t EXCEPT !.realized_pnl = 0, !.exit_reason = "dry_run"]
    ELSE IF pnl = NoPnl
    THEN [t EXCEPT !.realized_pnl = NoPnl, !.exit_reason = "unknown"]
    ELSE LET t1 == [t EXCEPT !.realized_pnl = pnl]
         IN  [t1 EXCEPT !.exit_reason = determine_exit_reason(t1)]

\* the first loop of cleanup_closed_trades, for a trade with status "open"
close_if_flat(t, v, q, ok, pnl) ==
    IF t.status = "open" /\ q = "ok" /\ position_size(v) = 0
    THEN [t |-> fetch_and_store_trade_stats(
                    [t EXCEPT !.status = "closed", !.closed_ts = TRUE,
                              !.closed_old = FALSE], pnl),
          v |-> cancel_all_trade_orders(v, ok)]
    ELSE [t |-> t, v |-> v]

\* the second loop: closed or expired and older than 24 h
prune(t) ==
    IF /\ t.status \in {"closed", "expired"}
       /\ IF t.closed_ts THEN t.closed_old ELSE t.placed_age = 2
    THEN [t EXCEPT !.status = "archived"]
    ELSE t

\* cleanup_closed_trades
CancelOutcomes == {TpIdx, {1}, {}}
CleanupClosedTrades ==
    \E q \in {"ok", "raise"},
       ok \in IF tr.status = "open" /\ position_size(venue) = 0
              THEN CancelOutcomes ELSE {{}},
       pnl \in IF tr.status = "open" /\ position_size(venue) = 0
               THEN PnlValues \cup {NoPnl} ELSE {NoPnl} :
        /\ tr.status \in {"open", "closed", "expired"}
        /\ LET r == close_if_flat(tr, venue, q, ok, pnl)
           IN  /\ tr' = prune(r.t)
               /\ venue' = r.v
        /\ UNCHANGED <<ex, dry_run, MOVE_SL_TO_BE_ON_TP1, rules, events, h>>

-----------------------------------------------------------------------------
(* Maintenance steps of the supervisor loop that drives the engine          *)

\* Poll path of the entry-fill reconciliation: the position query shows a
\* position for a pending trade.
PollEntryFill ==
    \E q \in {"ok", "raise"}, o \in PostOutcomes :
        /\ tr.status = "pending"
        /\ IF q = "ok" /\ position_size(venue) > 0 /\ position_avg(venue) > 0
           THEN LET t1 == [tr EXCEPT !.entry_price = position_avg(venue),
                                     !.filled_ts = TRUE,
                                     !.status = "open"]
                    h1 == [h EXCEPT !.opens = @ + 1, !.detect = @ \cup {"poll"}]
                    r  == place_post_entry_orders(t1, venue, h1, o)
                IN  /\ tr' = r.t
                    /\ venue' = r.v
                    /\ h' = r.h
           ELSE UNCHANGED <<tr, venue, h>>
        /\ UNCHANGED <<ex, dry_run, MOVE_SL_TO_BE_ON_TP1, rules, events>>

\* Retry of the post-entry placement for an open trade that has none yet.
RetryPostOrders ==
    \E o \in PostOutcomes :
        /\ tr.status = "open"
        /\ ~tr.post_orders_placed
        /\ LET r == place_post_entry_orders(tr, venue, h, o)
           IN  /\ tr' = r.t
               /\ venue' = r.v
               /\ h' = r.h
        /\ UNCHANGED <<ex, dry_run, MOVE_SL_TO_BE_ON_TP1, rules, events>>

Next ==
    \/ PlaceEntry
    \/ OnExecution
    \/ PollEntryFill
    \/ RetryPostOrders
    \/ CheckTpFillsFallback
    \/ CancelExpiredEntries
    \/ CleanupClosedTrades
    \/ VenueFillEntry
    \/ VenuePositionVisible
    \/ VenueTpFill
    \/ VenueClose
    \/ StreamDrop
    \/ Advance

Spec == Init /\ [][Next]_vars

\* the engine started with MOVE_SL_TO_BE_ON_TP1=false in its environment
InitBeOff ==
    /\ dry_run = FALSE
    /\ MOVE_SL_TO_BE_ON_TP1 = FALSE
    /\ rules \in RuleSets
    /\ tr = NoTrade
    /\ venue = NoVenue
    /\ events = <<>>
    /\ h = NoHistory
    /\ ex = NoExecutor

SpecBeOff == InitBeOff /\ [][Next]_vars

-----------------------------------------------------------------------------
(* The engine under DRY_RUN: no order of its own ever reaches the venue, so  *)
(* the venue does not move; the account may hold a position taken by hand,   *)
(* and the execution stream may deliver any message                          *)

HandPosition == [NoVenue EXCEPT !.pos = 10, !.avg = 100, !.seen = TRUE]

InitDry ==
    /\ dry_run = TRUE
    /\ MOVE_SL_TO_BE_ON_TP1 = TRUE
    /\ rules \in RuleSets
    /\ tr = NoTrade
    /\ venue \in {NoVenue, HandPosition}
    /\ events = <<>>
    /\ h = NoHistory
    /\ ex = NoExecutor

\* the messages that lead the engine to its venue calls: the entry fill, the
\* TP1 fill (break-even move) and the fill of TP TRAIL_AFTER_TP_INDEX
DryEvents ==
    { [tag |-> "ENTRY", n |-> 0, kind |-> "num", px |-> 100] }
        \cup [tag : {"TP"}, n : {1, TRAIL_AFTER_TP_INDEX}, kind : {"num"},
              px : {101}]

\* an execution message reaches the stream
StreamDeliver ==
    \E ev \in DryEvents :
        /\ Len(events) < MaxQueue
        /\ events' = Append(events, ev)
        /\ UNCHANGED <<ex, dry_run, MOVE_SL_TO_BE_ON_TP1, rules, tr, venue, h>>

NextDry ==
    \/ PlaceEntry
    \/ StreamDeliver
    \/ OnExecution
    \/ PollEntryFill
    \/ CancelExpiredEntries
    \/ CleanupClosedTrades
    \/ StreamDrop
    \/ Advance

SpecDry == InitDry /\ [][NextDry]_vars

-----------------------------------------------------------------------------
(* place_post_entry_orders called directly, up to MaxCalls times, on a trade *)
(* that on_execution has just opened                                         *)

OpenTrade(sig, px, qty) ==
    [NewTrade(sig, EntryOid, qty) EXCEPT
        !.status = "open", !.entry_price = px, !.filled_ts = TRUE]

FilledVenue(qty, sz, px, seen) ==
    [CreateEntry(NoVenue, qty) EXCEPT
        !.entry = "filled", !.pos = sz, !.avg = px, !.seen = seen]

InitPost ==
    /\ dry_run = FALSE
    /\ MOVE_SL_TO_BE_ON_TP1 = TRUE
    /\ rules \in RuleSets
    /\ events = <<>>
    /\ h = [NoHistory EXCEPT !.opens = 1, !.detect = {"push"}]
    /\ ex = NoExecutor
    /\ \E sig \in Signals, px \in FillPrices, equity \in Equities,
          full \in BOOLEAN, seen \in BOOLEAN :
        LET qty == calc_base_qty(equity, sig.trigger)
            sz  == IF full THEN qty ELSE rules.qty_step
        IN  /\ tr = OpenTrade(sig, px, qty)
            /\ venue = FilledVenue(qty, sz, px, seen)

CallPostEntry ==
    \E o \in PostOutcomes :
        /\ h.calls < MaxCalls
        /\ LET r == place_post_entry_orders(tr, venue,
                                            [h EXCEPT !.calls = @ + 1], o)
           IN  /\ tr' = r.t
               /\ venue' = r.v
               /\ h' = r.h
        /\ UNCHANGED <<ex, dry_run, MOVE_SL_TO_BE_ON_TP1, rules, events>>

NextPost ==
    \/ CallPostEntry
    \/ VenuePositionVisible

SpecPost == InitPost /\ [][NextPost]_vars

-----------------------------------------------------------------------------
(* place_conditional_entry called directly (test_signal.main step 4), up to  *)
(* MaxCalls times while no entry is armed, on signals and last prices that   *)
(* sit on, next to and away from the too-far thresholds                      *)

GateTriggers == {100, 200}
GateOffsets == {-2, -1, 0, 1, 2}

CallPlaceConditionalEntry ==
    \E sig \in Signals, trigger \in GateTriggers, d \in GateOffsets,
       equity \in Equities, res \in {"ok", "fail"} :
        LET s    == [sig EXCEPT !.trigger = trigger]
            last == trigger + d
            qty  == calc_base_qty(equity, trigger)
            r    == place_conditional_entry(venue, s, last, qty, res)
        IN  /\ tr.status = "none"
            /\ h.calls < MaxCalls
            /\ venue' = r.v
            /\ tr' = IF r.oid # NoOrder THEN NewTrade(s, r.oid, qty) ELSE tr
            /\ h' = [h EXCEPT !.calls = @ + 1,
                              !.gate = [sig |-> s, last |-> last,
                                        res |-> res, oid |-> r.oid]]
            /\ UNCHANGED <<ex, dry_run, MOVE_SL_TO_BE_ON_TP1, rules, events>>

NextGate ==
    \/ CallPlaceConditionalEntry

SpecGate == Init /\ [][NextGate]_vars

-----------------------------------------------------------------------------
(* The engine is started: TradeEngine.startup_sync, on the ledger as it was   *)
(* loaded and the venue as it is                                              *)

\* Mutation of startup_sync: a position no active trade matches is adopted
\* as an open trade.
startup_sync_Adopts(t, v, hh, q) ==
    IF dry_run THEN Result(t, v, [hh EXCEPT !.sync = "skipped"], FALSE)
    ELSE IF q = "raise" THEN Result(t, v, [hh EXCEPT !.sync = "failed"], FALSE)
    ELSE IF position_size(v) <= 0
    THEN Result(t, v, [hh EXCEPT !.sync = "none"], FALSE)
    ELSE IF t.status \in {"pending", "open"}
    THEN Result(t, v, [hh EXCEPT !.sync = "tracked"], FALSE)
    ELSE Result([NoTrade EXCEPT !.status = "open",
                                !.entry_price = position_avg(v),
                                !.filled_ts = TRUE],
                v, [hh EXCEPT !.sync = "orphan"], FALSE)

\* startup_sync: q is how the position query goes.  It logs: the sync was
\* skipped (dry run), failed, found no position, found every position
\* tracked by a pending or open trade, or found an orphan.
startup_sync(t, v, hh, q) ==
    IF dry_run THEN Result(t, v, [hh EXCEPT !.sync = "skipped"], FALSE)
    ELSE IF q = "raise" THEN Result(t, v, [hh EXCEPT !.sync = "failed"], FALSE)
    ELSE IF position_size(v) <= 0
    THEN Result(t, v, [hh EXCEPT !.sync = "none"], FALSE)
    ELSE IF t.status \in {"pending", "open"}
    THEN Result(t, v, [hh EXCEPT !.sync = "tracked"], FALSE)
    ELSE Result(t, v, [hh EXCEPT !.sync = "orphan"], FALSE)

StartupSync ==
    \E q \in {"ok", "raise"} :
        /\ LET r == startup_sync(tr, venue, h, q)
           IN  /\ tr' = r.t
               /\ venue' = r.v
               /\ h' = r.h
        /\ UNCHANGED <<ex, dry_run, MOVE_SL_TO_BE_ON_TP1, rules, events>>

\* The state file is missing at the start: the ledger is empty, the stream
\* is a new connection, and the venue keeps what it has.
StateFileLost ==
    /\ tr.status # "none"
    /\ tr' = NoTrade
    /\ events' = <<>>
    /\ UNCHANGED <<ex, dry_run, MOVE_SL_TO_BE_ON_TP1, rules, venue, h>>

\* the life of a trade up to its close, with starts of the engine in between
NextSync ==
    \/ PlaceEntry
    \/ OnExecution
    \/ CancelExpiredEntries
    \/ CleanupClosedTrades
    \/ VenueFillEntry
    \/ VenuePositionVisible
    \/ VenueClose
    \/ Advance
    \/ StateFileLost
    \/ StartupSync

SpecSync == Init /\ [][NextSync]_vars

-----------------------------------------------------------------------------
(* Revocation: the source message of a trade is edited by its author, and    *)
(* the supervisor's revocation check reads it again                          *)

\* A message text, as far as the status patterns of signal_parser see it:
\* the status words it holds.
Texts ==
    { {}, {"ACTIVE"}, {"CANCELLED"}, {"CLOSED"},
      {"ACTIVE", "CLOSED"}, {"WIN", "CLOSED"} }

\* parse_signal_status: the first pattern that matches, in the code's order
parse_signal_status(text) ==
    IF "ACTIVE" \in text THEN "active"
    ELSE IF "BREAKEVEN" \in text THEN "breakeven"
    ELSE IF "WIN" \in text THEN "win"
    ELSE IF "CANCELLED" \in text THEN "cancelled"
    ELSE IF "CLOSED" \in text THEN "closed"
    ELSE "unknown"

is_signal_still_valid(text) ==
    parse_signal_status(text) \in {"active", "unknown"}

\* Cancel on revocation, for the trade: when the text now classifies as
\* cancelled or closed, cancel the entry order of a pending trade, the TP
\* orders of an open one, and mark the trade.
revocation_check(t, v, text) ==
    IF t.status \in {"pending", "open"}
       /\ parse_signal_status(text) \in {"cancelled", "closed"}
    THEN [t |-> [t EXCEPT !.status = "cancelled",
                          !.exit_reason = "signal_revoked"],
          v |-> IF t.status = "pending" THEN cancel_entry(v, TRUE)
                ELSE cancel_all_trade_orders(v, TpIdx)]
    ELSE [t |-> t, v |-> v]

RevocationCheck ==
    /\ tr.status \in {"pending", "open"}
    /\ LET r == revocation_check(tr, venue, h.msg)
       IN  /\ tr' = r.t
           /\ venue' = r.v
    /\ UNCHANGED <<ex, dry_run, MOVE_SL_TO_BE_ON_TP1, rules, events, h>>

\* The author edits the message.
EditMessage ==
    \E text \in Texts :
        /\ tr.status \in {"pending", "open"}
        /\ text # h.msg
        /\ h' = [h EXCEPT !.msg = text]
        /\ UNCHANGED <<ex, dry_run, MOVE_SL_TO_BE_ON_TP1, rules, tr, venue, events>>

NextRevoke ==
    \/ PlaceEntry
    \/ OnExecution
    \/ CancelExpiredEntries
    \/ VenueFillEntry
    \/ VenuePositionVisible
    \/ Advance
    \/ EditMessage
    \/ RevocationCheck

SpecRevoke == Init /\ [][NextRevoke]_vars

-----------------------------------------------------------------------------
(* The standalone executor: src/main.py.  The ingest path is followed: the   *)
(* poll loop over the channel, handle_signal with its gates, the daily       *)
(* counter, the open_orders map and the state document.  DRY_RUN is false.   *)
(* The stop-loss, TP and DCA orders that handle_signal arms next to the      *)
(* entry are not followed: every failure of theirs is caught, and no gate or *)
(* counter reads them.                                                       *)

engine == <<dry_run, MOVE_SL_TO_BE_ON_TP1, rules, tr, venue, events, h>>

is_too_late(side, entry, last) ==
    IF side = "short"
    THEN last * 10000 <= entry * (10000 - ENTRY_EXPIRY_PRICE_BP)
    ELSE last * 10000 >= entry * (10000 + ENTRY_EXPIRY_PRICE_BP)

save_state(e) == [e EXCEPT !.disk = e.state]

\* Mutation of reset_daily_counters_if_needed: the day is replaced and the
\* counter of the day before is kept.
reset_daily_counters_if_needed_KeepsCount(e) ==
    IF e.state.day # e.today
    THEN save_state([e EXCEPT !.state.day = e.today])
    ELSE e

reset_daily_counters_if_needed(e) ==
    IF e.state.day # e.today
    THEN save_state([e EXCEPT !.state.day = e.today,
                              !.state.trades_today = 0])
    ELSE e

\* len(open_orders)
OpenCount(st) == Cardinality({b \in Bases : st.open_orders[b] # NoInfo})

\* handle_signal left through the branch `how`
Ended(e, how, last) == [e EXCEPT !.gate = [how |-> how, last |-> last]]

\* the entry order place_conditional_entry creates, tracked and counted
Placed(e, sig, last) ==
    save_state(Ended(
            [e EXCEPT
                !.orders.made[signal_hash(sig)][e.today] = @ + 1,
                !.orders.armed[sig.base] = @ + 1,
                !.state.open_orders[sig.base] = [entry_order_id |-> EntryOid],
                !.state.trades_today = @ + 1,
                !.due = @ \ {sig.base}],
            "placed", last))

\* Mutation of handle_signal: a signal skipped as too late is counted.
handle_signal_CountsLate(e0, sig, last, out) ==
    LET e == reset_daily_counters_if_needed(e0)
    IN  IF e.state.trades_today >= MAX_TRADES_PER_DAY
        THEN Ended(e, "daily", NoPrice)
        ELSE IF OpenCount(e.state) >= MAX_OPEN_TRADES
        THEN Ended(e, "open", NoPrice)
        ELSE IF out = "raise" THEN Ended(e, "raise", NoPrice)
        ELSE IF is_too_late(sig.side, sig.entry, last)
        THEN save_state(Ended([e EXCEPT !.state.trades_today = @ + 1],
                              "late", last))
        ELSE Placed(e, sig, last)

\* handle_signal(sig).  `last` is what get_last_price answers; `out` is how
\* the venue calls before the entry exists go: "ok", or "raise"
\* (get_last_price, get_usdt_equity, set_leverage or the order creation
\* raised).  The account is funded: qty_base > 0.
handle_signal(e0, sig, last, out) ==
    LET e == reset_daily_counters_if_needed(e0)
    IN  IF e.state.trades_today >= MAX_TRADES_PER_DAY
        THEN Ended(e, "daily", NoPrice)
        ELSE IF OpenCount(e.state) >= MAX_OPEN_TRADES
        THEN Ended(e, "open", NoPrice)
        ELSE IF out = "raise" THEN Ended(e, "raise", NoPrice)
        ELSE IF is_too_late(sig.side, sig.entry, last)
        THEN Ended(e, "late", last)
        ELSE Placed(e, sig, last)

\* the symbols whose record has expired
Expired(e) ==
    {b \in Bases : e.state.open_orders[b] # NoInfo /\ b \in e.due}

\* cleanup_expired: cancel the orders of every expired record (`ok`: the
\* symbols whose cancel went through; a failure is printed and the order
\* stays on the venue) and drop the record.
cleanup_expired(e, ok) ==
    IF Expired(e) = {} THEN e
    ELSE save_state(
        [e EXCEPT
            !.orders.armed =
                [b \in Bases |-> IF b \in Expired(e) \cap ok THEN @[b] - 1
                                                             ELSE @[b]],
            !.state.open_orders =
                [b \in Bases |-> IF b \in Expired(e) THEN NoInfo ELSE @[b]],
            !.due = @ \ Expired(e)])

\* main_loop, head of an iteration: cleanup_expired, then
\* fetch_messages_after(last_id), which may raise or answer nothing.
MainLoopFetch ==
    \E ok \in SUBSET Expired(ex), fetched \in BOOLEAN :
        /\ ex.pc = "idle"
        /\ LET e == cleanup_expired(ex, ok)
           IN  ex' = IF fetched /\ Len(e.channel) > e.last_id
                     THEN [e EXCEPT !.pc = "batch",
                                    !.batch_end = Len(e.channel)]
                     ELSE e
        /\ UNCHANGED engine

\* main_loop, one message of the batch: parse_signal, handle_signal, advance
\* the local cursor.  An exception leaves the batch for the next iteration.
MainLoopHandle ==
    /\ ex.pc = "batch"
    /\ ex.last_id < ex.batch_end
    /\ LET mid == ex.last_id + 1
           sig == ex.channel[mid]
       IN  IF sig = NoSignal
           THEN ex' = [ex EXCEPT !.last_id = mid]
           ELSE \E last \in LastPrices, out \in {"ok", "raise"} :
                LET e == handle_signal(ex, sig, last, out)
                IN  ex' = IF e.gate.how = "raise"
                          THEN [e EXCEPT !.pc = "idle", !.batch_end = 0,
                                         !.gate = NoGate]
                          ELSE [e EXCEPT !.last_id = mid]
    /\ UNCHANGED engine

\* main_loop, end of the batch: state["last_id"] = last_id; save_state
MainLoopSave ==
    /\ ex.pc = "batch"
    /\ ex.last_id = ex.batch_end
    /\ ex' = save_state([ex EXCEPT !.state.last_id = ex.last_id,
                                   !.pc = "idle", !.batch_end = 0,
                                   !.gate = NoGate])
    /\ UNCHANGED engine

\* The process dies and is started again: load_state, then main_loop's
\* last_id = state.get("last_id").
Restart ==
    /\ ex' = [ex EXCEPT !.state = ex.disk, !.last_id = ex.disk.last_id,
                        !.pc = "idle", !.batch_end = 0, !.gate = NoGate]
    /\ UNCHANGED engine

\* A message appears in the channel.
PostMessage ==
    \E p \in Posts :
        /\ Len(ex.channel) < MaxMsgs
        /\ ex' = [ex EXCEPT !.channel = Append(@, p)]
        /\ UNCHANGED engine

\* Midnight passes.
NextDay ==
    /\ ex.today < MaxDay
    /\ ex' = [ex EXCEPT !.today = @ + 1]
    /\ UNCHANGED engine

\* The expires_at of a tracked entry order passes.
Elapse ==
    \E b \in Bases :
        /\ ex.state.open_orders[b] # NoInfo
        /\ b \notin ex.due
        /\ ex' = [ex EXCEPT !.due = @ \cup {b}]
        /\ UNCHANGED engine

InitMain ==
    /\ dry_run = FALSE
    /\ MOVE_SL_TO_BE_ON_TP1 = TRUE
    /\ rules = [tick_size |-> 1, qty_step |-> 1, min_qty |-> 1]
    /\ tr = NoTrade
    /\ venue = NoVenue
    /\ events = <<>>
    /\ h = NoHistory
    /\ ex = NoExecutor

NextMain ==
    \/ PostMessage
    \/ MainLoopFetch
    \/ MainLoopHandle
    \/ MainLoopSave
    \/ Restart
    \/ NextDay
    \/ Elapse

SpecMain == InitMain /\ [][NextMain]_vars

------------------------------------------------------------------------------
(* The fill lists of on_execution, event by event: every TP or DCA event of  *)
(* the stream, a repeated or partial one included, goes through the same     *)
(* membership test.                                                          *)

Elems(lst) == {lst[i] : i \in 1..Len(lst)}

\* Mutation of track_fill: the number is appended without the membership
\* test.
track_fill_NoMembershipTest(lst, count, n) ==
    [list |-> Append(lst, n), count |-> Len(lst) + 1]

\* `if n not in filled: filled.append(n); tr[...] = len(filled)`
track_fill(lst, count, n) ==
    IF n \in Elems(lst) THEN [list |-> lst, count |-> count]
    ELSE [list |-> Append(lst, n), count |-> Len(Append(lst, n))]

DeliverTpFill ==
    /\ h.fills.delivered < MaxDeliveries
    /\ \E n \in TpIdx :
        LET r == track_fill(h.fills.tp_fills_list, h.fills.tp_fills, n)
        IN  h' = [h EXCEPT !.fills.tp_fills_list = r.list,
                           !.fills.tp_fills = r.count,
                           !.fills.tp_seen = @ \cup {n},
                           !.fills.delivered = @ + 1]
    /\ UNCHANGED <<dry_run, MOVE_SL_TO_BE_ON_TP1, rules, tr, venue, events, ex>>

DeliverDcaFill ==
    /\ h.fills.delivered < MaxDeliveries
    /\ \E n \in DcaIdx :
        LET r == track_fill(h.fills.dca_fills_list, h.fills.dca_fills, n)
        IN  h' = [h EXCEPT !.fills.dca_fills_list = r.list,
                           !.fills.dca_fills = r.count,
                           !.fills.dca_seen = @ \cup {n},
                           !.fills.delivered = @ + 1]
    /\ UNCHANGED <<dry_run, MOVE_SL_TO_BE_ON_TP1, rules, tr, venue, events, ex>>

NextFills ==
    \/ DeliverTpFill
    \/ DeliverDcaFill

SpecFills == Init /\ [][NextFills]_vars

------------------------------------------------------------------------------
(* Archiving: the prune loop of cleanup_closed_trades over a ledger of       *)
(* several trades, and _archive_trade with its bound on trade_history.       *)
(* Trades are placed in the order of their ids, which is the order the       *)
(* loops walk open_trades in.                                                *)

\* Mutation of archive_trade: the history is not cut back to HISTORY_MAX.
archive_trade_NoTrim(l, i) ==
    [l EXCEPT !.hist = Append(@, i)]

\* _archive_trade: append, then keep history[-500:]
archive_trade(l, i) ==
    LET hist == Append(l.hist, i)
    IN  IF l.old + Len(hist) > HISTORY_MAX
        THEN IF l.old > 0 THEN [l EXCEPT !.old = @ - 1, !.hist = hist]
                          ELSE [l EXCEPT !.hist = Tail(hist)]
        ELSE [l EXCEPT !.hist = hist]

\* the first loop over the ledger: flat is the set of trades whose position
\* query answers size 0
RECURSIVE close_loop(_, _, _)
close_loop(l, flat, i) ==
    IF i > MaxTrades THEN l
    ELSE close_loop(
           IF l.trades[i].status = "open" /\ i \in flat
           THEN [l EXCEPT !.trades[i].status = "closed",
                          !.trades[i].closed_ts = TRUE,
                          !.trades[i].closed_old = FALSE]
           ELSE l,
           flat, i + 1)

\* the second loop: archive and delete what prune selects
RECURSIVE prune_loop(_, _)
prune_loop(l, i) ==
    IF i > MaxTrades THEN l
    ELSE prune_loop(
           IF l.trades[i].status # "archived"
              /\ prune(l.trades[i]).status = "archived"
           THEN [archive_trade(l, i) EXCEPT !.trades[i].status = "archived"]
           ELSE l,
           i + 1)

cleanup_closed_trades(l, flat) == prune_loop(close_loop(l, flat, 1), 1)

InitArchive ==
    /\ dry_run = FALSE
    /\ MOVE_SL_TO_BE_ON_TP1 = TRUE
    /\ rules \in RuleSets
    /\ tr = NoTrade
    /\ venue = NoVenue
    /\ events = <<>>
    /\ ex = NoExecutor
    /\ \E n \in {0, HISTORY_MAX - 2, HISTORY_MAX - 1, HISTORY_MAX} :
          h = [NoHistory EXCEPT !.arch.old = n]

\* the next trade is stored as pending
ArchPlace ==
    /\ \E i \in ArchIds :
        /\ h.arch.trades[i].status = "none"
        /\ \A j \in 1..(i - 1) : h.arch.trades[j].status # "none"
        /\ h' = [h EXCEPT !.arch.trades[i].status = "pending"]
    /\ UNCHANGED <<dry_run, MOVE_SL_TO_BE_ON_TP1, rules, tr, venue, events, ex>>

\* on_execution, entry branch
ArchFill ==
    /\ \E i \in ArchIds :
        /\ h.arch.trades[i].status = "pending"
        /\ h' = [h EXCEPT !.arch.trades[i].status = "open"]
    /\ UNCHANGED <<dry_run, MOVE_SL_TO_BE_ON_TP1, rules, tr, venue, events, ex>>

\* cancel_expired_entries: every pending trade past the expiry time
ArchExpire ==
    /\ \E i \in ArchIds : h.arch.trades[i].status = "pending"
                              /\ h.arch.trades[i].placed_age >= 1
    /\ h' = [h EXCEPT !.arch.trades =
                [i \in ArchIds |->
                    IF @[i].status = "pending" /\ @[i].placed_age >= 1
                    THEN [@[i] EXCEPT !.status = "expired"] ELSE @[i]]]
    /\ UNCHANGED <<dry_run, MOVE_SL_TO_BE_ON_TP1, rules, tr, venue, events, ex>>

\* time passes a threshold of one trade (as Advance)
ArchAdvance ==
    /\ \E i \in ArchIds :
        LET t == h.arch.trades[i]
        IN  \/ /\ t.status \in {"pending", "expired"}
               /\ t.placed_age < 2
               /\ h' = [h EXCEPT !.arch.trades[i].placed_age = @ + 1]
            \/ /\ t.status = "closed"
               /\ ~t.closed_old
               /\ h' = [h EXCEPT !.arch.trades[i].closed_old = TRUE]
    /\ UNCHANGED <<dry_run, MOVE_SL_TO_BE_ON_TP1, rules, tr, venue, events, ex>>

ArchCleanup ==
    /\ \E flat \in SUBSET {i \in ArchIds : h.arch.trades[i].status = "open"} :
          h' = [h EXCEPT !.arch = cleanup_closed_trades(@, flat)]
    /\ UNCHANGED <<dry_run, MOVE_SL_TO_BE_ON_TP1, rules, tr, venue, events, ex>>

NextArchive ==
    \/ ArchPlace
    \/ ArchFill
    \/ ArchExpire
    \/ ArchAdvance
    \/ ArchCleanup

SpecArchive == InitArchive /\ [][NextArchive]_vars

------------------------------------------------------------------------------
(* A chat read: DiscordReader._request_with_retry, request by request.       *)
(* Time is counted in quarter seconds.                                       *)

\* the loop runs range(max_retries) with max_retries = 3
read_max_retries == 3

\* What one requests.get can meet: a response that is not a 429 ("ok"), a
\* 429 whose body gives retry_after 0 or 1 second or none that float() takes
\* (NoPrice), a timeout, a connection error, another exception.
ReadOutcomes ==
    { [kind |-> k, retry_after |-> 0] : k \in {"ok", "timeout", "conn", "err"} }
        \cup { [kind |-> "r429", retry_after |-> ra] : ra \in {0, 1, NoPrice} }

\* time.sleep(retry + 0.25), retry = 5.0 unless the body gives a number
sleep_429(out) ==
    (IF out.retry_after = NoPrice THEN 5 ELSE out.retry_after) * 4 + 1

\* Mutation of after_request: a 429 response is returned like any other.
after_request_Returns429(rd, out) ==
    LET r1 == [rd EXCEPT !.calls = @ + 1, !.log = Append(@, out), !.slept = 0]
    IN  CASE out.kind \in {"ok", "r429"} -> [r1 EXCEPT !.pc = "returned"]
          [] out.kind \in {"timeout", "conn"} ->
                IF rd.attempt < read_max_retries - 1
                THEN [r1 EXCEPT !.pc = "sleep", !.wait = 4]
                ELSE [r1 EXCEPT !.pc = "raised"]
          [] OTHER -> [r1 EXCEPT !.pc = "raised"]

\* the body of the loop for one requests.get
after_request(rd, out) ==
    LET r1 == [rd EXCEPT !.calls = @ + 1, !.log = Append(@, out), !.slept = 0]
    IN  CASE out.kind = "ok" -> [r1 EXCEPT !.pc = "returned"]
          [] out.kind = "r429" ->
                [r1 EXCEPT !.pc = "sleep", !.wait = sleep_429(out)]
          [] out.kind \in {"timeout", "conn"} ->
                IF rd.attempt < read_max_retries - 1
                THEN [r1 EXCEPT !.pc = "sleep", !.wait = 4]
                ELSE [r1 EXCEPT !.pc = "raised"]
          [] OTHER -> [r1 EXCEPT !.pc = "raised"]

\* `continue`: the next attempt, or the raise after the loop
after_sleep(rd) ==
    IF rd.attempt + 1 < read_max_retries
    THEN [rd EXCEPT !.attempt = @ + 1, !.pc = "request"]
    ELSE [rd EXCEPT !.attempt = @ + 1, !.pc = "raised"]

ReadCall ==
    /\ ex.read.pc = "idle"
    /\ ex' = [ex EXCEPT !.read.pc = "request"]
    /\ UNCHANGED <<dry_run, MOVE_SL_TO_BE_ON_TP1, rules, tr, venue, events, h>>

ReadRequest ==
    /\ ex.read.pc = "request"
    /\ \E out \in ReadOutcomes : ex' = [ex EXCEPT !.read = after_request(@, out)]
    /\ UNCHANGED <<dry_run, MOVE_SL_TO_BE_ON_TP1, rules, tr, venue, events, h>>

ReadTick ==
    /\ ex.read.pc = "sleep"
    /\ ex.read.wait > 0
    /\ ex' = [ex EXCEPT !.read.wait = @ - 1, !.read.slept = @ + 1]
    /\ UNCHANGED <<dry_run, MOVE_SL_TO_BE_ON_TP1, rules, tr, venue, events, h>>

ReadWake ==
    /\ ex.read.pc = "sleep"
    /\ ex.read.wait = 0
    /\ ex' = [ex EXCEPT !.read = after_sleep(@)]
    /\ UNCHANGED <<dry_run, MOVE_SL_TO_BE_ON_TP1, rules, tr, venue, events, h>>

NextRead ==
    \/ ReadCall
    \/ ReadRequest
    \/ ReadTick
    \/ ReadWake

SpecRead == Init /\ [][NextRead]_vars

\* the thread of the call keeps running: requests answer or time out
\* (timeout=20), sleeps end
SpecReadFair == SpecRead /\ WF_vars(NextRead)

------------------------------------------------------------------------------
(* The state document on disk, step by step: save_state writes state.tmp and *)
(* renames it over state.json; load_state reads state.json.  save_state is   *)
(* called from the poll loop's thread (main_loop under asyncio.to_thread)    *)
(* and from the event loop's thread (ws_loop), on the same dict and the same *)
(* state.tmp, so the steps of two calls interleave.                          *)

\* load_state: the document in state.json; the default when the file is
\* missing or json.loads raises
load_state(fs) ==
    IF fs.json = 0 THEN DefaultState
    ELSE LET r == json_loads(fs.data[fs.json])
         IN  IF r.ok THEN r.v ELSE DefaultState

\* the inodes some name or some open file still refers to
InUse(fs) == ({fs.json, fs.tmp} \cup {fs.fd[th] : th \in Threads}) \ {0}

FreeInode(fs) == CHOOSE i \in Inodes \ InUse(fs) : \A j \in Inodes \ InUse(fs) : i <= j

\* open(state.tmp, "w"): the file is truncated, or created when missing
open_tmp(fs, th) ==
    LET i == IF fs.tmp # 0 THEN fs.tmp ELSE FreeInode(fs)
    IN  [fs EXCEPT !.tmp = i, !.data[i] = <<>>, !.fd[th] = i]

\* write and close: the text lands at offset 0 of the open file, over
\* whatever another writer has put there since the truncation
write_close(fs, th, text) ==
    LET i   == fs.fd[th]
        old == fs.data[i]
    IN  [fs EXCEPT !.data[i] = text \o SubSeq(old, Len(text) + 1, Len(old)),
                   !.fd[th] = 0]

\* tmp.replace(STATE_FILE), for an existing state.tmp
replace_tmp(fs) ==
    LET f == [fs EXCEPT !.json = fs.tmp, !.tmp = 0]
    IN  [f EXCEPT !.data = [i \in Inodes |-> IF i \in InUse(f) THEN f.data[i] ELSE <<>>]]

\* save_state from start to end with no other thread in between
save_state_alone(fs, th, st) ==
    replace_tmp(write_close(open_tmp(fs, th), th, json_dumps(st)))

\* json.dumps(st, ...) of the dict as it is now
SaveDump(th) ==
    /\ ex.store.pc[th] = "idle"
    /\ ex' = [ex EXCEPT !.store.text[th] = json_dumps(ex.store.mem),
                        !.store.pc[th] = "dumped"]
    /\ UNCHANGED <<dry_run, MOVE_SL_TO_BE_ON_TP1, rules, tr, venue, events, h>>

SaveOpen(th) ==
    /\ ex.store.pc[th] = "dumped"
    /\ ex' = [ex EXCEPT !.store.fs = open_tmp(@, th), !.store.pc[th] = "opened"]
    /\ UNCHANGED <<dry_run, MOVE_SL_TO_BE_ON_TP1, rules, tr, venue, events, h>>

SaveWrite(th) ==
    /\ ex.store.pc[th] = "opened"
    /\ ex' = [ex EXCEPT !.store.fs = write_close(@, th, ex.store.text[th]),
                        !.store.pc[th] = "written"]
    /\ UNCHANGED <<dry_run, MOVE_SL_TO_BE_ON_TP1, rules, tr, venue, events, h>>

\* the rename; FileNotFoundError when the other thread has renamed
\* state.tmp away
SaveReplace(th) ==
    /\ ex.store.pc[th] = "written"
    /\ ex' = IF ex.store.fs.tmp = 0
             THEN [ex EXCEPT !.store.pc[th] = "idle", !.store.text[th] = <<>>]
             ELSE [ex EXCEPT !.store.fs = replace_tmp(@),
                             !.store.prev = json_loads(ex.store.text[th]).v,
                             !.store.pc[th] = "idle",
                             !.store.text[th] = <<>>]
    /\ UNCHANGED <<dry_run, MOVE_SL_TO_BE_ON_TP1, rules, tr, venue, events, h>>

\* a handler changes the dict: last_id, the counter, an order placed,
\* break-even done, an order dropped
StoreMutate ==
    /\ \E d \in Docs \ {ex.store.mem} : ex' = [ex EXCEPT !.store.mem = d]
    /\ UNCHANGED <<dry_run, MOVE_SL_TO_BE_ON_TP1, rules, tr, venue, events, h>>

\* the process dies wherever its threads are and starts again: open files
\* are closed as they are, `state = load_state()` at import
StoreCrash ==
    /\ \E th \in Threads : ex.store.pc[th] # "idle"
    /\ LET fs0 == [ex.store.fs EXCEPT !.fd = [th \in Threads |-> 0]]
           fs1 == [fs0 EXCEPT !.data = [i \in Inodes |->
                                  IF i \in InUse(fs0) THEN fs0.data[i] ELSE <<>>]]
       IN  ex' = [ex EXCEPT !.store.fs = fs1,
                            !.store.mem = load_state(fs1),
                            !.store.pc = [th \in Threads |-> "idle"],
                            !.store.text = [th \in Threads |-> <<>>]]
    /\ UNCHANGED <<dry_run, MOVE_SL_TO_BE_ON_TP1, rules, tr, venue, events, h>>

NextStore ==
    \/ \E th \in Threads : SaveDump(th)
    \/ \E th \in Threads : SaveOpen(th)
    \/ \E th \in Threads : SaveWrite(th)
    \/ \E th \in Threads : SaveReplace(th)
    \/ StoreMutate
    \/ StoreCrash

SpecStore == Init /\ [][NextStore]_vars

-----------------------------------------------------------------------------
(* Properties *)

\* A status change the trade life cycle allows.  The record of a closed or
\* expired trade is deleted from the ledger after 24 h ("archived"): a
\* removal, not a change of its status.
StatusStepAllowed(a, b) ==
    \/ a = b
    \/ a = "none" /\ b = "pending"
    \/ a = "pending" /\ b \in {"open", "cancelled", "expired"}
    \/ a = "open" /\ b \in {"closed", "cancelled"}
    \/ a \in {"closed", "expired", "cancelled"} /\ b = "archived"

\* C1: across every engine operation a trade's status only moves
\* pending -> {open, cancelled, expired} or open -> {closed, cancelled}; a
\* cancelled, expired or closed trade never changes status again.
C1_MonotoneStatus == [][StatusStepAllowed(tr.status, tr'.status)]_vars

\* C1 witness: an expired trade whose entry order had filled on the venue and
\* whose entry execution event was handed to on_execution after the expiry,
\* and left it expired.
C1_Witness_EventAfterExpiry ==
    tr.status = "expired" /\ venue.pos > 0 /\ h.stale

\* C2: invoking place_post_entry_orders twice on the same open trade asks the
\* venue for no second stop-loss and no second order of any TP index.
C2_SecondCallPlacesNothing ==
    /\ h.sl_calls <= 1
    /\ \A i \in TpIdx : h.tp_calls[i] <= 1 /\ venue.tps[i] <= 1

C4_SlMovedFlagMeansSlAtEntry ==
    ( /\ tr.status = "open"
      /\ h.detect = {"push"}
      /\ tr.sl_moved_to_be
      /\ tr.entry_price > 0
      /\ venue.pos > 0 )
    => venue.sl = round_price(tr.entry_price, 1, rules.tick_size)

\* the quantities of the TP orders created on the venue for the trade
SumTpQty == venue.tp[1].qty + venue.tp[2].qty + venue.tp[3].qty

\* C5: for an open trade with post_orders_placed (opened by on_execution),
\* the quantities of the TP orders placed sum to at most the position size
\* read at placement.
C5_TpQtyWithinPosition ==
    (tr.status = "open" /\ h.detect = {"push"} /\ tr.post_orders_placed)
    => SumTpQty <= h.size

\* C6: an open trade with post_orders_placed and a position (opened by
\* on_execution, with a positive entry_price) has a stop-loss registered on
\* the venue.
C6_PlacedMeansStopLoss ==
    ( /\ tr.status = "open"
      /\ h.detect = {"push"}
      /\ tr.post_orders_placed
      /\ tr.entry_price > 0
      /\ venue.pos > 0 )
    => venue.sl # 0

C8_PendingHasNoFillData ==
    tr.status = "pending" =>
        /\ tr.entry_price = NoPrice
        /\ \A i \in TpIdx : tr.tp_order_ids[i] = NoOrder /\ venue.tp[i].st = "none"
        /\ tr.tp1_order_id = NoOrder
        /\ ~tr.post_orders_placed

\* C8 witness: a pending trade past its expiry age whose position is already
\* visible on the venue and whose entry event is still on the stream.
C8_Witness_PendingWithPosition ==
    /\ tr.status = "pending"
    /\ tr.placed_age >= 1
    /\ position_size(venue) > 0
    /\ events # <<>>

\* C9: an open trade has entry_price > 0 and filled_ts set.
C9_OpenHasEntryPrice ==
    tr.status = "open" => tr.entry_price > 0 /\ tr.filled_ts

\* a retry of the post-entry placement that completes it
RetryPlaces == RetryPostOrders /\ tr'.post_orders_placed

\* C10: an open trade without post_orders_placed whose position is visible
\* can be completed by the retry (some outcome of the venue calls lets the
\* retry set post_orders_placed).
C10_RetryCanPlace ==
    ( /\ tr.status = "open"
      /\ ~tr.post_orders_placed
      /\ position_size(venue) > 0 )
    => ENABLED RetryPlaces

TrailAnchors(t) ==
    IF Len(t.tp_prices) < TRAIL_AFTER_TP_INDEX
    THEN {round_price(l, 1, rules.tick_size) : l \in LastPrices}
    ELSE {round_price(t.tp_prices[TRAIL_AFTER_TP_INDEX], 1, rules.tick_size)}

-----------------------------------------------------------------------------
(* The ingest path of src/main.py *)

RECURSIVE SumOver(_, _)
SumOver(f, S) ==
    IF S = {} THEN 0
    ELSE LET x == CHOOSE y \in S : TRUE IN f[x] + SumOver(f, S \ {x})

\* entry orders created for signals with hash x
MadeFor(x) == SumOver(ex.orders.made[x], 1..MaxDay)

\* C12: a signal whose fingerprint has been seen produces no new entry order:
\* in any run of the executor, crash and restart included, no two entry
\* orders on the venue stem from signals with the same fingerprint.
C12_SeenSignalPlacesNothing ==
    \A x \in Hashes : MadeFor(x) <= 1

\* entry orders created on day d
PlacedOn(d) == SumOver([x \in Hashes |-> ex.orders.made[x][d]], Hashes)

ActiveTrades == SumOver(ex.orders.armed, Bases)

\* C14: a signal is accepted only below both caps, so the number of active
\* trades never exceeds MAX_OPEN_TRADES, no more than MAX_TRADES_PER_DAY
\* entry orders are placed on one day, and a signal rejected by a cap places
\* no order.
C14_CapsHold ==
    /\ ActiveTrades <= MAX_OPEN_TRADES
    /\ \A d \in 1..MaxDay : PlacedOn(d) <= MAX_TRADES_PER_DAY

\* a step in which handle_signal returned for a signal that is_too_late
\* rejects at the price it read
OutOfDistanceStep ==
    /\ ex.pc = "batch"
    /\ ex'.last_id = ex.last_id + 1
    /\ ex.channel[ex'.last_id] # NoSignal
    /\ ex'.gate.last # NoPrice
    /\ is_too_late(ex.channel[ex'.last_id].side, ex.channel[ex'.last_id].entry,
                   ex'.gate.last)

\* what the trade engine's place_conditional_entry does with a signal its
\* gates reject: no order id (so its caller stores no record), venue untouched
EngineRejects ==
    \A sig \in Signals, last \in LastPrices, equity \in Equities,
       res \in {"ok", "fail"} :
        (\/ too_far(OrderSide(sig), last, sig.trigger)
         \/ beyond_expiry_price(OrderSide(sig), last, sig.trigger))
        => LET r == place_conditional_entry(NoVenue, sig, last,
                                            calc_base_qty(equity, sig.trigger),
                                            res)
           IN  r.oid = NoOrder /\ r.v = NoVenue

\* C15: however often an out-of-distance signal is presented, handling it
\* creates no entry order, writes no record into open_orders and does not
\* increment the daily counter, in memory or on disk; the trade engine's
\* place_conditional_entry answers such a signal with no order.
C15_OutOfDistanceChangesNothing ==
    /\ []EngineRejects
    /\ [][OutOfDistanceStep
          => /\ ex'.orders = ex.orders
             /\ ex'.state.open_orders = ex.state.open_orders
             /\ ex'.disk.open_orders = ex.disk.open_orders
             /\ ex'.state.trades_today <= ex.state.trades_today
             /\ ex'.disk.trades_today <= ex.disk.trades_today]_vars

\* the same signal came in two messages, both were handled, the second was
\* rejected as too late, and nothing was ever placed or counted (below the
\* caps, a return without an order means too late: so was the first)
C15_Witness_RejectedTwice ==
    /\ ex.last_id = 2
    /\ ex.channel[1] = ex.channel[2]
    /\ ex.channel[1] # NoSignal
    /\ ex.gate.how = "late"
    /\ ex.orders = NoOrders
    /\ ex.state.day = ex.today
    /\ ex.state.trades_today = 0

-----------------------------------------------------------------------------
(* The distance gate of the trade engine *)

\* the thresholds against the signal's own trigger, in basis points
PastThreshold(g) ==
    IF g.sig.side = "sell"
    THEN g.last * 10000 <= g.sig.trigger * (10000 - ENTRY_TOO_FAR_BP)
    ELSE g.last * 10000 >= g.sig.trigger * (10000 + ENTRY_TOO_FAR_BP)

\* C16: place_conditional_entry rejects a sell exactly when
\* last <= trigger*(1 - too_far_pct/100) and a buy exactly when
\* last >= trigger*(1 + too_far_pct/100), against the signal's trigger; at
\* every other last price it goes on to place_order, and the entry is armed
\* when the venue accepts it.  (The expiry-price band, 0.6 %, lies beyond the
\* too-far band, 0.5 %: it rejects nothing the distance gate lets through.)
C16_DistanceGateExact ==
    h.gate # NoCall
    => /\ PastThreshold(h.gate)
          => /\ h.gate.oid = NoOrder
             /\ venue = NoVenue
             /\ tr = NoTrade
       /\ (~PastThreshold(h.gate) /\ h.gate.res = "ok")
          => /\ h.gate.oid = EntryOid
             /\ venue.entry = "live"
             /\ venue.entries = 1
             /\ tr.status = "pending"
             /\ tr.trigger = h.gate.sig.trigger
             /\ tr.entry_order_id = EntryOid
       /\ (~PastThreshold(h.gate) /\ h.gate.res = "fail")
          => /\ h.gate.oid = NoOrder
             /\ venue = NoVenue

\* a sell at trigger 200 met last = 199, the threshold itself, and was
\* rejected although the venue would have taken the order
C16_Witness_RejectedAtThreshold ==
    /\ h.gate.sig.side = "sell"
    /\ h.gate.sig.trigger = 200
    /\ h.gate.last = 199
    /\ h.gate.res = "ok"
    /\ h.gate.oid = NoOrder

-----------------------------------------------------------------------------
(* Maintenance ticks of the trade engine *)

\* the stop-loss the break-even migration registers
BeStop(t) == round_price(be_price(t), 1, rules.tick_size)

\* C17 as stated: on a tick for a polled trade (opened by on_execution) whose
\* TP1 order is no longer listed, the stop-loss is moved to break-even and
\* sl_moved_to_be becomes true, however the venue answers the stop-loss
\* update; with TP1 still listed nothing changes.
C17_PollMovesSl ==
    (Polled(tr) /\ h.detect = {"push"})
    => \A m \in MoveOutcomes :
        LET r == check_tp_fills_fallback(tr, venue, "ok", m)
        IN  IF tp1_still_open(tr, venue)
            THEN r.t = tr /\ r.v = venue
            ELSE r.t.sl_moved_to_be /\ r.v.sl = BeStop(tr)

\* C17, amended: on a tick for a polled trade, the stop-loss is moved to
\* break-even and sl_moved_to_be becomes true exactly when the open-orders
\* query succeeds, TP1 is not listed and the venue accepts the stop-loss
\* update within max_retries attempts; in every other case (TP1 listed, the
\* query fails, the update fails) the record and the venue stay as they are.
C17_PollMovesSlWhenAccepted ==
    Polled(tr)
    => \A q \in {"ok", "raise"}, m \in MoveOutcomes :
        LET r == check_tp_fills_fallback(tr, venue, q, m)
        IN  IF /\ q = "ok" /\ ~tp1_still_open(tr, venue)
               /\ m.rules = "ok" /\ m.at \in 1..max_retries
            THEN /\ r.t = [tr EXCEPT !.sl_moved_to_be = TRUE]
                 /\ r.v = [venue EXCEPT !.sl = BeStop(tr)]
            ELSE r.t = tr /\ r.v = venue

\* TP1 filled, its event never reached the engine (no TP fill is recorded),
\* and the flag is set with the stop-loss at break-even: the poll did it
C17_Witness_PollMovedSl ==
    /\ tr.status = "open"
    /\ tr.sl_moved_to_be
    /\ tr.tp_fills_list = {}
    /\ events = <<>>
    /\ venue.tp[1].st = "filled"
    /\ venue.pos > 0
    /\ venue.sl = BeStop(tr)
    /\ tr.entry_price > 0

\* C18: on an open trade with post_orders_placed whose TP1 order could not be
\* placed (no tp1_order_id; opened by on_execution), break-even migration
\* is not blocked: a tick of the polling fallback can move the stop-loss to
\* break-even and set sl_moved_to_be.
C18_MissingTp1StillPolled ==
    ( /\ ~dry_run
      /\ tr.status = "open"
      /\ h.detect = {"push"}
      /\ tr.post_orders_placed
      /\ ~tr.sl_moved_to_be
      /\ tr.tp1_order_id = NoOrder )
    => \E q \in {"ok", "raise"}, m \in MoveOutcomes :
        check_tp_fills_fallback(tr, venue, q, m).t.sl_moved_to_be

\* C19: a pending trade older than the expiration window is expired by the
\* tick with its entry order cancelled: no trade is expired while its entry
\* order is still armed on the venue; a pending trade inside the window
\* stays pending.
C19_ExpiredMeansCancelled ==
    /\ (tr.status = "expired" /\ ~dry_run) => venue.entry # "live"
    /\ (tr.status = "expired") => tr.placed_age >= 1

\* C20: cleanup_closed_trades closes an open trade (opened by on_execution)
\* exactly when the position query succeeds and reads size 0, and then no
\* order of the trade is left on the venue; when the size is not 0 or the
\* query fails, the record and the venue stay as they are.
C20_CleanupClosesWhenFlat ==
    (tr.status = "open" /\ ~dry_run /\ h.detect = {"push"})
    => \A q \in {"ok", "raise"}, ok \in CancelOutcomes,
          pnl \in PnlValues \cup {NoPnl} :
        LET r == close_if_flat(tr, venue, q, ok, pnl)
        IN  IF q = "ok" /\ position_size(venue) = 0
            THEN /\ r.t.status = "closed"
                 /\ r.t.closed_ts
                 /\ \A i \in TpIdx : r.v.tp[i].st # "live"
            ELSE r.t = tr /\ r.v = venue

-----------------------------------------------------------------------------
(* Close accounting *)

\* the highest TP index recorded as filled
MaxFilled(t) == CHOOSE n \in t.tp_fills_list : \A k \in t.tp_fills_list : k <= n

\* the priority list of exit reasons as the specification states it
\* (4.4.9), with the highest filled index in the label, on the record being
\* closed and the realised PnL fetched for it
PriorityReason(t, pnl) ==
    LET fills    == Cardinality(t.tp_fills_list)
        tp_count == IF t.tp_prices # <<>> THEN Len(t.tp_prices)
                                          ELSE Len(FALLBACK_TP_BP)
    IN  IF t.trailing_started /\ pnl > 0 THEN "trailing_stop"
        ELSE IF fills >= tp_count THEN "all_tps_hit"
        ELSE IF fills > 0 /\ t.sl_moved_to_be /\ pnl > -1 /\ pnl < 1
        THEN "breakeven"
        ELSE IF fills > 0 THEN ThenSl(MaxFilled(t))
        ELSE IF pnl < 0 THEN "stop_loss"
        ELSE "unknown"

\* C21: whatever trailing_started, the TP fills, sl_moved_to_be and the
\* realised PnL are when an open trade (opened by on_execution) is closed,
\* the exit_reason recorded is the first matching rule of the priority list:
\* trailing_stop, all_tps_hit, breakeven, tp{highest filled index}_then_sl,
\* stop_loss, else unknown.
C21_ExitReasonByPriority ==
    (tr.status = "open" /\ ~dry_run /\ h.detect = {"push"}
        /\ position_size(venue) = 0)
    => \A ok \in CancelOutcomes, pnl \in PnlValues :
        LET r == close_if_flat(tr, venue, "ok", ok, pnl)
        IN  /\ r.t.status = "closed"
            /\ r.t.realized_pnl = pnl
            /\ r.t.exit_reason = PriorityReason(tr, pnl)

-----------------------------------------------------------------------------
(* Start of the engine *)

\* C22: startup_sync adopts nothing: whatever positions the venue shows,
\* orphans included, and however the position query goes, it leaves the
\* ledger and the venue as they are, asks the venue for no order, cancel,
\* leverage or trading stop, and returns normally.
C22_StartupSyncAdoptsNothing ==
    \A q \in {"ok", "raise"} :
        LET r == startup_sync(tr, venue, h, q)
        IN  /\ r.t = tr
            /\ r.v = venue
            /\ ~r.raised
            /\ r.h = [h EXCEPT !.sync = r.h.sync]

\* the ledger is empty, the venue holds a position without a stop-loss, and
\* the sync logged the orphan and left both as they were
C22_Witness_OrphanLogged ==
    /\ h.sync = "orphan"
    /\ tr = NoTrade
    /\ position_size(venue) > 0
    /\ venue.sl = 0

-----------------------------------------------------------------------------
(* Revocation *)

\* the text carries CANCELLED or CLOSED and none of the status words the
\* parser looks for first
ShowsRevoked(text) ==
    /\ text \cap {"CANCELLED", "CLOSED"} # {}
    /\ text \cap {"ACTIVE", "BREAKEVEN", "WIN"} = {}

------------------------------------------------------------------------------
\* C24: for every state S the executor can hold, load_state after
\* save_state(S) returns S: json.loads gives back the document json.dumps
\* was given, and a save_state that runs from start to end on any files the
\* executor can have left behind makes load_state return the dict that was
\* saved.
C24_LoadAfterSaveIsState ==
    (\A th \in Threads : ex.store.pc[th] = "idle")
    => \A th \in Threads :
        /\ json_loads(json_dumps(ex.store.mem)) = Parsed(ex.store.mem, <<>>)
        /\ load_state(save_state_alone(ex.store.fs, th, ex.store.mem)) = ex.store.mem

\* a saved document with an order in it, read back after a restart
C24_Witness_OrderReadBack ==
    /\ \A th \in Threads : ex.store.pc[th] = "idle"
    /\ ex.store.fs.json # 0
    /\ ex.store.mem = load_state(ex.store.fs)
    /\ ex.store.mem = ex.store.prev
    /\ ex.store.mem.items[4].v.items # <<>>
    /\ ex.store.mem.items[4].v.items[1].v.items[6].v = PyBool(TRUE)

\* C25: whatever point the process dies at during save_state, state.json
\* holds a complete document: the snapshot of the last save_state that
\* finished, or the one a save_state under way is writing.
C25_StateFileIsAlwaysASnapshot ==
    /\ ex.store.fs.json # 0 => json_loads(ex.store.fs.data[ex.store.fs.json]).ok
    /\ load_state(ex.store.fs) \in
         {ex.store.prev} \cup
         { json_loads(ex.store.text[th]).v : th \in {x \in Threads : ex.store.pc[x] # "idle"} }

\* C26: on a TP1 execution event, with MOVE_SL_TO_BE_ON_TP1 on and
\* sl_moved_to_be false, _move_sl tries set_trading_stop up to max_retries
\* times with round_to_tick(entry_price); sl_moved_to_be becomes true only if
\* one attempt succeeded (the venue's stop-loss is then that price) and
\* stays false if all of them failed.
C26_FlagOnlyAfterSuccessfulMove ==
    (InLedger(tr) /\ tr.status = "open" /\ ~dry_run /\ MOVE_SL_TO_BE_ON_TP1
        /\ ~tr.sl_moved_to_be /\ tr.entry_price # NoPrice /\ tr.entry_price # 0)
    => \A m \in {x \in MoveOutcomes : x.rules = "ok"} :
        LET ev == [tag |-> "TP", n |-> 1, kind |-> "num", px |-> tr.trigger]
            r  == on_tp_fill(tr, venue, h, ev, m, tr.trigger, TRUE)
        IN  IF m.at \in 1..max_retries
            THEN /\ r.t.sl_moved_to_be
                 /\ r.v.sl = round_price(tr.entry_price, 1, rules.tick_size)
            ELSE /\ ~r.t.sl_moved_to_be
                 /\ r.v.sl = venue.sl

\* C27: trailing is activated at most once per trade.  On a TP event of
\* index TRAIL_AFTER_TP_INDEX with trailing_started false, one
\* set_trading_stop with activePrice and trailingStop is issued and
\* registered, it carries stopLoss = round_to_tick(entry_price) exactly when
\* sl_moved_to_be is true, and trailing_started becomes true; with
\* trailing_started true the event issues no trailing call.
C27_TrailingActivatedOnce ==
    (InLedger(tr) /\ ~dry_run /\ TRAIL_ACTIVATE_ON_TP)
    => \A last \in LastPrices, tok \in BOOLEAN :
        LET ev == [tag |-> "TP", n |-> TRAIL_AFTER_TP_INDEX, kind |-> "num",
                   px |-> tr.trigger]
            r  == on_tp_fill(tr, venue, h, ev, NoMove, last, tok)
        IN  IF tr.trailing_started
            THEN r.v = venue /\ r.h = h /\ r.t.trailing_started
            ELSE /\ r.t.trailing_started
                 /\ r.v.active = trail_anchor(tr, ev.n, last)
                 /\ r.v.trail = trail_dist(r.v.active)
                 /\ r.h.floor = tr.sl_moved_to_be
                 /\ r.v.sl = IF tr.sl_moved_to_be
                             THEN round_price(tr.entry_price, 1, rules.tick_size)
                             ELSE venue.sl

\* C28: however often the event of one TP or DCA order is delivered, its
\* number is recorded once: the fill counts equal the number of distinct TP
\* and DCA indices delivered, and the lists hold exactly those indices, each
\* once.
C28_FillsCountDistinctIndices ==
    /\ h.fills.tp_fills = Cardinality(h.fills.tp_seen)
    /\ h.fills.dca_fills = Cardinality(h.fills.dca_seen)
    /\ Elems(h.fills.tp_fills_list) = h.fills.tp_seen
    /\ Elems(h.fills.dca_fills_list) = h.fills.dca_seen
    /\ Len(h.fills.tp_fills_list) = h.fills.tp_fills
    /\ Len(h.fills.dca_fills_list) = h.fills.dca_fills

\* five events for three orders: TP2 and DCA1 twice each, TP1 once
C28_Witness_RepeatedEvents ==
    /\ h.fills.delivered = 5
    /\ h.fills.tp_fills_list = <<2, 1>>
    /\ h.fills.tp_fills = 2
    /\ h.fills.dca_fills = 1

\* C29: the stop-loss post-entry placement installs is the signal's sl_price
\* when the signal carries one; it is derived from entry_price and
\* INITIAL_SL_PCT (above the entry for a Sell, below it for a Buy) only when
\* the signal has none.
C29_SignalSlIsUsed ==
    (tr.status = "open" /\ ~dry_run /\ tr.entry_price > 0
        /\ position_size(venue) > 0)
    => \A o \in {x \in PostOutcomes : x.pre = "ok" /\ x.sl_ok} :
        LET r == place_post_entry_orders(tr, venue, h, o)
        IN  r.v.sl = IF tr.sl_price # NoPrice
                     THEN round_price(tr.sl_price, 1, rules.tick_size)
                     ELSE sl_price_of(tr.entry_price, tr.order_side)

\* C30: when the stop-loss install or the placement of single TP orders
\* fails during place_post_entry_orders, every sub-order is still attempted,
\* each TP that succeeded has its order id recorded under its index (index 1
\* also as tp1_order_id), a failed one has none recorded, and
\* post_orders_placed is set.
C30_PartialFailureTolerated ==
    (tr.status = "open" /\ ~dry_run /\ tr.entry_price # NoPrice
        /\ position_size(venue) > 0)
    => \A o \in {x \in PostOutcomes : x.pre = "ok"} :
        LET r == place_post_entry_orders(tr, venue, h, o)
        IN  /\ ~r.raised
            /\ r.t.post_orders_placed
            /\ r.h.sl_calls = h.sl_calls + 1
            /\ o.sl_ok => r.v.sl = sl_price_of(tr.entry_price, tr.order_side)
            /\ ~o.sl_ok => r.v.sl = venue.sl
            /\ \A i \in tp_to_place(tr) :
                /\ r.h.tp_calls[i] = h.tp_calls[i] + 1
                /\ IF i \in o.tp_ok
                   THEN /\ r.v.tp[i].st = "live"
                        /\ r.v.tp[i].oid # NoOrder
                        /\ r.v.tps[i] = venue.tps[i] + 1
                        /\ r.t.tp_order_ids[i] = r.v.tp[i].oid
                        /\ i = 1 => r.t.tp1_order_id = r.v.tp[1].oid
                   ELSE /\ r.v.tp[i] = venue.tp[i]
                        /\ r.v.tps[i] = venue.tps[i]
                        /\ r.t.tp_order_ids[i] = tr.tp_order_ids[i]
                        /\ i = 1 => r.t.tp1_order_id = tr.tp1_order_id

\* the stop-loss install and TP1 failed, TP2 and TP3 were placed and
\* recorded, and the flag is set
C30_Witness_SlAndTp1Failed ==
    /\ tr.post_orders_placed
    /\ h.placed = 1
    /\ h.sl_calls = 1
    /\ venue.sl = 0
    /\ h.tp_calls[1] = 1
    /\ tr.tp_order_ids[1] = NoOrder
    /\ tr.tp1_order_id = NoOrder
    /\ tr.tp_order_ids[2] # NoOrder
    /\ venue.tp[2].st = "live"
    /\ venue.tp[3].oid = tr.tp_order_ids[3]

------------------------------------------------------------------------------
Occurrences(seq, x) == Cardinality({k \in 1..Len(seq) : seq[k] = x})

\* C31: a closed or expired trade leaves the ledger for trade_history only
\* once it is older than 24 h, and is then in trade_history exactly once;
\* pending and open trades are never removed; trade_history never holds more
\* than 500 entries and keeps the most recent ones (new entries are appended
\* in order and only the oldest are dropped).
C31_ArchiveOldClosedOnly ==
    [][ /\ h'.arch.old + Len(h'.arch.hist) <= HISTORY_MAX
        /\ h'.arch.old <= h.arch.old
        /\ \E k \in 0..MaxTrades :
              /\ Len(h'.arch.hist) = Len(h.arch.hist) + k
              /\ SubSeq(h'.arch.hist, 1, Len(h.arch.hist)) = h.arch.hist
              /\ h.arch.old - h'.arch.old
                   = IF h.arch.old + Len(h'.arch.hist) > HISTORY_MAX
                     THEN h.arch.old + Len(h'.arch.hist) - HISTORY_MAX
                     ELSE 0
        /\ \A i \in ArchIds :
            LET t == h.arch.trades[i]
                u == h'.arch.trades[i]
            IN  /\ Occurrences(h'.arch.hist, i) = IF u.status = "archived" THEN 1 ELSE 0
                /\ (u.status = "archived" /\ t.status # "archived")
                     => /\ t.status \in {"closed", "expired"}
                        /\ IF t.status = "closed" THEN t.closed_old
                                                  ELSE t.placed_age = 2
                /\ (t.status \in {"closed", "expired"} /\ u.status = t.status
                        /\ h'.arch.hist # h.arch.hist)
                     => ~(IF t.status = "closed" THEN t.closed_old
                                                 ELSE t.placed_age = 2)
      ]_vars

\* the history was full: three trades were archived in the order of the
\* ledger and the three oldest entries made room
C31_Witness_FullHistoryTrimmed ==
    /\ h.arch.hist = <<1, 2, 3>>
    /\ h.arch.old = HISTORY_MAX - 3
    /\ \A i \in ArchIds : h.arch.trades[i].status = "archived"

------------------------------------------------------------------------------
\* the TP1 execution event of the trade
Tp1Event == [tag |-> "TP", n |-> 1, kind |-> "num", px |-> tr.trigger]

\* on_execution(TP1) and check_tp_fills_fallback run one after the other on
\* the trade, in either order: the number of break-even set_trading_stop
\* calls each sends, and the record and venue after the first and the second
PollThenPush(q, m1, m2) ==
    LET p == check_tp_fills_fallback(tr, venue, q, m1)
        e == on_tp_fill(p.t, p.v, h, Tp1Event, m2, tr.trigger, TRUE)
    IN  [ first |-> p.sent, second |-> e.sent,
          mid |-> [t |-> p.t, v |-> p.v], end |-> [t |-> e.t, v |-> e.v] ]

PushThenPoll(q, m1, m2) ==
    LET e == on_tp_fill(tr, venue, h, Tp1Event, m1, tr.trigger, TRUE)
        p == check_tp_fills_fallback(e.t, e.v, q, m2)
    IN  [ first |-> e.sent, second |-> p.sent,
          mid |-> [t |-> e.t, v |-> e.v], end |-> [t |-> p.t, v |-> p.v] ]

C33_SingleWriter ==
    /\ Cardinality({th \in Threads : ex.store.pc[th] # "idle"}) <= 1
    /\ \A th \in Threads :
         ex.store.fs.fd[th] # 0 =>
           \A o \in Threads \ {th} : ex.store.pc[o] = "idle"
    /\ ex.store.fs.json # 0
         => ex.store.fs.data[ex.store.fs.json] = json_dumps(ex.store.prev)

------------------------------------------------------------------------------
ReadDone == ex.read.pc \in {"returned", "raised"}
LastOf(seq) == seq[Len(seq)]

\* what holds at every point of a chat read
ReadSafe ==
    LET rd == ex.read IN
    /\ rd.calls <= read_max_retries
    /\ rd.calls = Len(rd.log)
    \* every request before the last met a 429, a timeout or a connection
    \* error
    /\ \A k \in 1..(Len(rd.log) - 1) : rd.log[k].kind \in {"r429", "timeout", "conn"}
    /\ rd.pc = "returned" => LastOf(rd.log).kind = "ok"
    /\ rd.pc = "raised" =>
          \/ LastOf(rd.log).kind = "err"
          \/ rd.calls = read_max_retries /\ LastOf(rd.log).kind # "ok"
    \* a request that follows a 429 was sent after the server's retry_after
    /\ (rd.pc = "request" /\ rd.log # <<>> /\ LastOf(rd.log).kind = "r429"
          /\ LastOf(rd.log).retry_after # NoPrice)
         => rd.slept >= 4 * LastOf(rd.log).retry_after
    \* a request that follows a timeout or connection error was sent
    /\ (rd.pc = "sleep" /\ LastOf(rd.log).kind \in {"timeout", "conn"})
         => rd.calls < read_max_retries

\* C34: a chat read ends after at most 3 HTTP requests: it returns the
\* first response that is not a 429, waits the server's retry_after before
\* it retries a 429, retries a timeout or connection error, and raises once
\* the 3 attempts are used up.
C34_ReadEndsWithinThreeRequests ==
    /\ []ReadSafe
    /\ (ex.read.pc = "request") ~> ReadDone

\* a 429 with retry_after 1 (slept out), then a timeout, then a response:
\* returned at the third request
C34_Witness_ThirdRequestAnswers ==
    /\ ex.read.pc = "returned"
    /\ ex.read.calls = 3
    /\ ex.read.log[1].kind = "r429" /\ ex.read.log[1].retry_after = 1
    /\ ex.read.log[2].kind = "timeout"

\* C35: a trade is closed only after its position was seen on the venue: a
\* closed trade has post_orders_placed set (dry run aside), so a trade that
\* has just filled and whose position the venue does not show yet is not
\* closed by cleanup_closed_trades.
C35_ClosedMeansPostOrdersPlaced ==
    tr.status = "closed" => tr.post_orders_placed

\* C36: a trade whose entry order has filled on the venue (its position is
\* open) is never marked expired by cancel_expired_entries, even when the
\* execution event of the fill never reached the engine.
C36_FilledNeverExpires ==
    [][ (venue.entry = "filled" /\ venue.pos > 0 /\ tr.status = "pending")
            => tr'.status # "expired" ]_vars

\* C37: a TP{n} or DCA{n} execution event for a trade that is closed,
\* expired or cancelled and still in the ledger changes no field of the trade
\* and sends no set_trading_stop to the venue.
C37_EventOnEndedTradeChangesNothing ==
    (tr.status \in {"closed", "expired", "cancelled"} /\ ~dry_run)
    => \A tag \in {"TP", "DCA"}, n \in TpIdx, m \in MoveOutcomes,
          last \in LastPrices, tok \in BOOLEAN :
        LET ev == [tag |-> tag, n |-> n, kind |-> "num", px |-> tr.trigger]
            r  == on_execution(tr, venue, h, ev,
                               CHOOSE x \in PostOutcomes : x.pre = "raise",
                               m, last, tok)
        IN  r.t = tr /\ r.v = venue

\* C38: with MOVE_SL_TO_BE_ON_TP1 disabled, sl_moved_to_be is never set, and
\* neither a TP1 execution event nor the TP1 polling fallback changes the
\* stop-loss registered on the venue.
C38_DisabledNeverMovesToBreakEven ==
    [][ ~MOVE_SL_TO_BE_ON_TP1
        => /\ ~tr'.sl_moved_to_be
           /\ ( \/ CheckTpFillsFallback
                \/ (OnExecution /\ Head(events).tag = "TP" /\ Head(events).n = 1) )
                => venue'.sl = venue.sl ]_vars

\* C39: under DRY_RUN no engine operation issues a mutating venue call.
\* Whatever the engine does, the venue stays as it was and no TP order or
\* stop-loss install is asked of it; and in every state the entry placement
\* sends no set_leverage and creates no order, a TP event and the TP1 polling
\* fallback send no set_trading_stop, and the cancel paths cancel nothing.
C39_DryRunOperations ==
    /\ \A sig \in Signals, last \in LastPrices, res \in {"ok", "fail"} :
        LET r == place_conditional_entry(venue, sig, last, 10, res)
        IN  ~r.lev /\ r.v = venue
    /\ \A n \in TpIdx, m \in MoveOutcomes, last \in LastPrices, tok \in BOOLEAN :
        LET ev == [tag |-> "TP", n |-> n, kind |-> "num", px |-> 101]
            r  == on_tp_fill(tr, venue, h, ev, m, last, tok)
        IN  r.sent = 0 /\ r.v = venue
    /\ \A q \in {"ok", "raise"}, m \in MoveOutcomes :
        LET r == check_tp_fills_fallback(tr, venue, q, m)
        IN  r.sent = 0 /\ r.v = venue /\ r.t = tr
    /\ \A o \in PostOutcomes :
        LET r == place_post_entry_orders(tr, venue, h, o)
        IN  r.v = venue /\ r.h.sl_calls = h.sl_calls /\ r.h.tp_calls = h.tp_calls
    /\ \A c \in BOOLEAN : cancel_entry(venue, c) = venue
    /\ \A ok \in CancelOutcomes : cancel_all_trade_orders(venue, ok) = venue

C39_DryRunNoMutatingCall ==
    /\ [](dry_run => C39_DryRunOperations)
    /\ [][ dry_run => /\ venue' = venue
                      /\ h'.sl_calls = h.sl_calls
                      /\ h'.tp_calls = h.tp_calls ]_vars

\* Witness for C39: under DRY_RUN the entry fill was handled, the TP1 event
\* set sl_moved_to_be and the TP3 event started trailing.
C39_Witness_DryTradeRanThrough ==
    /\ dry_run
    /\ tr.status = "open" /\ tr.post_orders_placed
    /\ tr.sl_moved_to_be /\ tr.trailing_started

\* C40: while a trade is expired, the venue holds no live entry order with
\* the trade id as orderLinkId, and no step fills one into a position.
C40_ExpiredEntryCannotFill ==
    [][ (tr.status = "expired" /\ ~dry_run)
        => /\ ~(venue.entry = "live" /\ venue.link = TradeId)
           /\ venue'.pos <= venue.pos ]_vars

====
